---- MODULE Spec2Model ----
(***************************************************************************)
(* A model of the LabGuard camera monitoring pipeline                      *)
(* (backend/camera_monitoring): the per-frame violation flags, the         *)
(* cooldown- and cap-gated evidence snapshots of CameraProcessor, the gaze  *)
(* direction classification and the configuration validation of config.py. *)
(*                                                                         *)
(* Conventions.  Angles are whole degrees.  Confidence thresholds are in    *)
(* percent (0.5 is 50).  Time is in whole seconds; clock is the value       *)
(* time.time() returns now, and it never decreases.  A Python Optional is   *)
(* None (the empty sequence) or Some(x) (a one-element sequence).  A Python *)
(* name that starts with an underscore is written without it.               *)
(***************************************************************************)
EXTENDS Integers, Sequences, FiniteSets, TLC

VARIABLES
    config,               \* the attributes of the config module that are read
    clock,                \* what time.time() returns now
    snapshot_violations,  \* CameraProcessor.snapshot_violations
    snapshot_cooldowns,   \* CameraProcessor.snapshot_cooldowns (a dict)
    snapshot_count,       \* CameraProcessor.snapshot_count
    pc,                   \* the position of the call in progress
    frame,                \* the detector outputs for the frame in progress
    results,              \* the results record of process_frame
    snapshot_info,        \* the snapshot_info of process_violation_snapshots
    loop_index,           \* the position of the loop over violations.items()
    checks,               \* history: what each loop iteration of this frame saw
    capture_log,          \* history: per type, the recorded capture times
    write_failed,         \* history: the types whose latest write failed
    call,                 \* a call of a pure function: its arguments and result
    main_pc,              \* the position of main()
    config_valid,         \* config._config_valid, set when config is imported (None before)
    warned,               \* the warnings the import of config has issued
    handlers,             \* whether the processor's signal handlers are installed
    initialized,          \* CameraProcessor.initialized
    running,              \* CameraProcessor.running
    frame_count,          \* CameraProcessor.frame_count
    camera,               \* CameraProcessor.camera: "none", "closed", "open", "released"
    output,               \* the JSON messages printed to stdout, by kind
    filter,               \* an ExponentialMovingAverage object of utils/geometry.py
    estimator,            \* the GazeEstimator object
    trace,                \* history: the calls made on filter and estimator
    stop                  \* history: where the loop was when the stop signal came

\* the capture ledger of the processor
ledger == << snapshot_violations, snapshot_cooldowns, snapshot_count >>

\* the locals of the process_frame call in progress
frame_state == << pc, frame, results, snapshot_info, loop_index >>

\* the history variables
history == << checks, capture_log, write_failed >>

\* the state of main() and of the processor's life cycle
lifecycle == << main_pc, config_valid, warned, handlers, initialized, running,
                frame_count, camera, output >>

\* the smoothing filter, the gaze estimator and the history of their calls
objects == << filter, estimator, trace >>

vars == << config, clock, ledger, frame_state, history, call, objects, lifecycle, stop >>

-----------------------------------------------------------------------------
(* Bounds of the model *)

\* the clock runs from 0 to MaxClock
MaxClock == 15
\* the largest session cap tried
MaxCap == 2
\* the longest an image write takes, in seconds
MaxWriteTime == 1
\* the largest number of persons in a frame
MaxPersons == 3
\* the largest gaze angle tried, in degrees
MaxAngle == 26
\* the most frames the camera delivers in a run
MaxFrames == 3
\* the largest gaze threshold tried in validation, in degrees
MaxThreshold == 3
\* the largest smoothing window tried
MaxWindow == 4
\* the most samples fed to one smoothing filter
MaxUpdates == 3
\* the most quality scores recorded by the estimator
MaxSamples == 11
\* the bits of the significand of the floating-point numbers of the model
\* (float64 has 53)
MantissaBits == 10
\* the largest image width and height
MaxDim == 13
\* the largest angle given to normalize_angle, in quarter turns
MaxTurns == 16

-----------------------------------------------------------------------------
(* Optional values *)

None == << >>
Some(x) == << x >>

-----------------------------------------------------------------------------
(* Floating-point numbers, modelled as exact fractions << numerator,
   denominator >> in lowest terms with a positive denominator *)

RECURSIVE GCD(_, _)
GCD(a, b) == IF b = 0 THEN a ELSE GCD(b, a % b)

Abs(n) == IF n < 0 THEN -n ELSE n

Rat(n, d) ==
    LET g == GCD(Abs(n), d) IN << n \div g, d \div g >>

RatAdd(x, y) == Rat(x[1] * y[2] + y[1] * x[2], x[2] * y[2])

RatSub(x, y) == Rat(x[1] * y[2] - y[1] * x[2], x[2] * y[2])

RatMul(x, y) == Rat(x[1] * y[1], x[2] * y[2])

RatLess(x, y) == x[1] * y[2] < y[1] * x[2]

\* the whole number n as a fraction
Whole(n) == << n, 1 >>

-----------------------------------------------------------------------------
(* config.py *)

DefaultConfig ==
    [ PHONE_CONFIDENCE_THRESHOLD   |-> 50,
      PERSON_CONFIDENCE_THRESHOLD  |-> 60,
      GAZE_LEFT_THRESHOLD          |-> -20,
      GAZE_RIGHT_THRESHOLD         |-> 20,
      GAZE_CENTER_THRESHOLD        |-> 12,
      GAZE_HEAD_YAW_COMP_FACTOR    |-> 30,
      GAZE_SMOOTHING_WINDOW        |-> 3,
      GAZE_MIN_EYE_WIDTH_PX        |-> 12,
      GAZE_MIN_QUALITY             |-> 30,
      BLINK_EAR_THRESHOLD          |-> 25,
      HEAD_FACING_SCREEN_YAW_MIN   |-> -30,
      HEAD_FACING_SCREEN_YAW_MAX   |-> 30,
      HEAD_FACING_SCREEN_PITCH_MIN |-> -35,
      HEAD_FACING_SCREEN_PITCH_MAX |-> 20,
      CAMERA_WIDTH                 |-> 640,
      CAMERA_HEIGHT                |-> 480,
      TARGET_FPS                   |-> 30,
      FRAME_SKIP                   |-> 1,
      MAX_FRAME_PROCESSING_TIME_MS |-> 100,
      JSON_OUTPUT_ENABLED          |-> TRUE,
      ENABLE_PHONE_DETECTION       |-> TRUE,
      ENABLE_PERSON_COUNTING       |-> TRUE,
      ENABLE_HEAD_POSE_DETECTION   |-> TRUE,
      ENABLE_GAZE_DETECTION        |-> TRUE,
      ENABLE_BLINK_DETECTION       |-> TRUE,
      MULTIPLE_PERSON_THRESHOLD    |-> 2,
      ENABLE_VIOLATION_SNAPSHOTS   |-> TRUE,
      SNAPSHOT_COOLDOWN_SECONDS    |-> 7,
      DEFAULT_SNAPSHOT_VIOLATIONS  |-> {"phone_violation", "multiple_persons"},
      MAX_SNAPSHOTS_PER_SESSION    |-> 100 ]

is_facing_screen(yaw, pitch) ==
    LET yaw_in_range ==
            /\ config.HEAD_FACING_SCREEN_YAW_MIN <= yaw
            /\ yaw <= config.HEAD_FACING_SCREEN_YAW_MAX
        pitch_in_range ==
            /\ config.HEAD_FACING_SCREEN_PITCH_MIN <= pitch
            /\ pitch <= config.HEAD_FACING_SCREEN_PITCH_MAX
    IN  yaw_in_range /\ pitch_in_range

\* get_gaze_direction with the center band open at both ends
get_gaze_direction_open_band(horizontal_angle) ==
    IF horizontal_angle < config.GAZE_LEFT_THRESHOLD THEN "left"
    ELSE IF horizontal_angle > config.GAZE_RIGHT_THRESHOLD THEN "right"
    ELSE IF /\ -config.GAZE_CENTER_THRESHOLD < horizontal_angle
            /\ horizontal_angle < config.GAZE_CENTER_THRESHOLD THEN "center"
    ELSE IF horizontal_angle < 0 THEN "left"
    ELSE "right"

get_gaze_direction(horizontal_angle) ==
    IF horizontal_angle < config.GAZE_LEFT_THRESHOLD THEN "left"
    ELSE IF horizontal_angle > config.GAZE_RIGHT_THRESHOLD THEN "right"
    ELSE IF /\ -config.GAZE_CENTER_THRESHOLD <= horizontal_angle
            /\ horizontal_angle <= config.GAZE_CENTER_THRESHOLD THEN "center"
    ELSE IF horizontal_angle < 0 THEN "left"
    ELSE "right"

\* get_gaze_direction on an angle that is a fraction of a degree
get_gaze_direction_of_fraction(horizontal_angle) ==
    IF RatLess(horizontal_angle, Whole(config.GAZE_LEFT_THRESHOLD)) THEN "left"
    ELSE IF RatLess(Whole(config.GAZE_RIGHT_THRESHOLD), horizontal_angle) THEN "right"
    ELSE IF /\ ~RatLess(horizontal_angle, Whole(-config.GAZE_CENTER_THRESHOLD))
            /\ ~RatLess(Whole(config.GAZE_CENTER_THRESHOLD), horizontal_angle) THEN "center"
    ELSE IF RatLess(horizontal_angle, Whole(0)) THEN "left"
    ELSE "right"

-----------------------------------------------------------------------------
(* utils/geometry.py: ExponentialMovingAverage; detectors/gaze_estimator.py:
   the constructor and the smoothing of GazeEstimator *)

\* ExponentialMovingAverage.__init__
ExponentialMovingAverage(window) ==
    [ alpha |-> Rat(2, window + 1), value |-> None ]

\* ExponentialMovingAverage.update with the first sample blended into 0
ExponentialMovingAverage_update_unseeded(flt, new_value) ==
    LET previous == IF flt.value = None THEN Whole(0) ELSE flt.value[1]
    IN  [ flt EXCEPT !.value =
            Some(RatAdd(RatMul(flt.alpha, new_value),
                        RatMul(RatSub(Whole(1), flt.alpha), previous))) ]

\* ExponentialMovingAverage.update: the object after the call; the call
\* returns its value
ExponentialMovingAverage_update(flt, new_value) ==
    [ flt EXCEPT !.value =
        IF flt.value = None
        THEN Some(new_value)
        ELSE Some(RatAdd(RatMul(flt.alpha, new_value),
                         RatMul(RatSub(Whole(1), flt.alpha), flt.value[1]))) ]

\* GazeEstimator.__init__; smoothing_window 0 stands for None (and for 0),
\* which selects config.GAZE_SMOOTHING_WINDOW
GazeEstimator(smoothing_window) ==
    LET window == IF smoothing_window # 0 THEN smoothing_window
                  ELSE config.GAZE_SMOOTHING_WINDOW
    IN  [ ear_threshold    |-> config.BLINK_EAR_THRESHOLD,
          head_yaw_comp_factor |-> config.GAZE_HEAD_YAW_COMP_FACTOR,
          min_eye_width_px |-> config.GAZE_MIN_EYE_WIDTH_PX,
          min_quality      |-> config.GAZE_MIN_QUALITY,
          smoothing_window |-> window,
          alpha            |-> Rat(2, window + 1),
          ema_angle        |-> None,
          quality_history  |-> << >> ]

\* GazeEstimator._smooth_gaze_angle: the estimator after the call; the call
\* returns its ema_angle
smooth_gaze_angle(est, angle) ==
    [ est EXCEPT !.ema_angle =
        IF est.ema_angle = None
        THEN Some(angle)
        ELSE Some(RatAdd(RatMul(est.alpha, angle),
                         RatMul(RatSub(Whole(1), est.alpha), est.ema_angle[1]))) ]

RECURSIVE SeqSum(_)
SeqSum(q) == IF q = << >> THEN 0 ELSE Head(q) + SeqSum(Tail(q))

\* GazeEstimator._push_quality with the newest score evicted
push_quality_keeps_oldest(est, quality) ==
    LET appended == Append(est.quality_history, quality)
    IN  [ est EXCEPT !.quality_history =
            IF Len(appended) > 10 THEN SubSeq(appended, 1, 10) ELSE appended ]

\* GazeEstimator._push_quality: the estimator after the call
push_quality(est, quality) ==
    LET appended == Append(est.quality_history, quality)
    IN  [ est EXCEPT !.quality_history =
            IF Len(appended) > 10 THEN Tail(appended) ELSE appended ]

\* GazeEstimator._avg_quality reading the newest score only
avg_quality_newest_only(est) ==
    IF est.quality_history = << >> THEN Whole(0)
    ELSE Whole(est.quality_history[Len(est.quality_history)])

\* GazeEstimator._avg_quality
avg_quality(est) ==
    IF est.quality_history = << >> THEN Whole(0)
    ELSE Rat(SeqSum(est.quality_history), Len(est.quality_history))

\* GazeEstimator._empty_gaze_result
empty_gaze_result(est) ==
    [ horizontal_angle |-> Whole(0),
      direction        |-> "unknown",
      gaze_detected    |-> FALSE,
      quality_score    |-> 0,
      avg_quality      |-> avg_quality(est) ]

\* estimate_gaze smoothing the angle before the quality check
estimate_gaze_smooths_first(est, s, head_pose) ==
    IF ~s.iris
    THEN [ est |-> est, result |-> empty_gaze_result(est), recorded |-> << >> ]
    ELSE IF s.landmarks = "full" /\ s.eye_width < est.min_eye_width_px
    THEN [ est |-> est, result |-> empty_gaze_result(est), recorded |-> << >> ]
    ELSE
        LET horizontal_angle ==
                IF s.landmarks = "full" /\ head_pose # None
                THEN RatAdd(s.angle, RatMul(Whole(head_pose[1].yaw),
                                            Rat(est.head_yaw_comp_factor, 100)))
                ELSE s.angle
            quality_score == IF s.landmarks = "full" THEN s.quality ELSE 40
            smoothed == smooth_gaze_angle(push_quality(est, quality_score),
                                          horizontal_angle)
        IN  IF /\ quality_score < 20
               /\ RatLess(avg_quality(smoothed), Whole(smoothed.min_quality))
            THEN [ est |-> smoothed, result |-> empty_gaze_result(smoothed),
                   recorded |-> << quality_score >> ]
            ELSE [ est |-> smoothed,
                   result |->
                       [ horizontal_angle |-> smoothed.ema_angle[1],
                         direction |->
                             get_gaze_direction_of_fraction(smoothed.ema_angle[1]),
                         gaze_detected |-> TRUE,
                         quality_score |-> quality_score,
                         avg_quality   |-> avg_quality(smoothed) ],
                   recorded |-> << quality_score >> ]

\* GazeEstimator.estimate_gaze on a sample s: whether the iris landmarks are
\* there, whether the face has all 478 landmarks ("full") or not, the smaller
\* eye width in pixels, the angle the iris offsets give and the quality the
\* two eyes' agreement gives.  The result is the estimator after the call,
\* the dict returned, and the quality score recorded, if any.
estimate_gaze(est, s, head_pose) ==
    IF ~s.iris
    THEN [ est |-> est, result |-> empty_gaze_result(est), recorded |-> << >> ]
    ELSE IF s.landmarks = "full" /\ s.eye_width < est.min_eye_width_px
    THEN [ est |-> est, result |-> empty_gaze_result(est), recorded |-> << >> ]
    ELSE
        LET horizontal_angle ==
                IF s.landmarks = "full" /\ head_pose # None
                THEN RatAdd(s.angle, RatMul(Whole(head_pose[1].yaw),
                                            Rat(est.head_yaw_comp_factor, 100)))
                ELSE s.angle
            quality_score == IF s.landmarks = "full" THEN s.quality ELSE 40
            pushed == push_quality(est, quality_score)
        IN  IF /\ quality_score < 20
               /\ RatLess(avg_quality(pushed), Whole(pushed.min_quality))
            THEN [ est |-> pushed, result |-> empty_gaze_result(pushed),
                   recorded |-> << quality_score >> ]
            ELSE
                LET smoothed == smooth_gaze_angle(pushed, horizontal_angle)
                IN  [ est |-> smoothed,
                      result |->
                          [ horizontal_angle |-> smoothed.ema_angle[1],
                            direction |->
                                get_gaze_direction_of_fraction(smoothed.ema_angle[1]),
                            gaze_detected |-> TRUE,
                            quality_score |-> quality_score,
                            avg_quality   |-> avg_quality(smoothed) ],
                      recorded |-> << quality_score >> ]

\* no call has been made on the objects, which were constructed with the
\* windows given
NoTrace(filter_window, estimator_window) ==
    [ window |-> [ filter |-> filter_window, estimator |-> estimator_window ],
      filter |-> << >>, estimator |-> << >>, quality |-> << >> ]

\* a filter of the default window, the estimator that initialize() creates,
\* and no call made on either
FreshObjects ==
    /\ filter = ExponentialMovingAverage(5)
    /\ estimator = GazeEstimator(0)
    /\ trace = NoTrace(5, estimator.smoothing_window)

-----------------------------------------------------------------------------
(* camera_processor.py: the violation flags *)

\* the keys of the violations dict, in the order the dict is built and iterated
ViolationOrder ==
    << "phone_violation", "multiple_persons", "no_face_detected",
       "not_facing_screen", "not_looking_at_screen" >>

ViolationTypes == { ViolationOrder[i] : i \in 1..Len(ViolationOrder) }

\* the results record as process_frame creates it: every part an empty dict
EmptyResults ==
    [ detections |-> None, face |-> None, gaze |-> None,
      violations |-> None, snapshot |-> None ]

\* results['detections'], from ObjectDetector.detect
DetectionsOf(f) ==
    Some([ phone_detected |-> f.phone, persons_count |-> f.persons ])

\* results['face'], from FaceAnalyzer.detect_face; 'orientation' is set only
\* when the face is detected and has a head pose
FaceOf(f) ==
    Some([ detected    |-> f.face,
           head_pose   |-> IF f.face THEN f.head_pose ELSE None,
           orientation |->
               IF f.face /\ f.head_pose # None
               THEN IF is_facing_screen(f.head_pose[1].yaw, f.head_pose[1].pitch)
                    THEN "facing_screen" ELSE "looking_away"
               ELSE "" ])

\* the direction GazeEstimator.estimate_gaze reports: the class of the smoothed
\* angle, or 'unknown' with the empty result
GazeDirectionOf(f) ==
    IF f.gaze # None THEN get_gaze_direction(f.gaze[1]) ELSE "unknown"

\* results['gaze'] with an unknown direction counted as looking at the screen
GazeOf_unknown_is_looking(f) ==
    IF f.face
    THEN Some([ direction         |-> GazeDirectionOf(f),
                gaze_detected     |-> f.gaze # None,
                looking_at_screen |-> GazeDirectionOf(f) \in { "center", "unknown" } ])
    ELSE None

\* results['gaze'], set only when a face is detected
GazeOf(f) ==
    IF f.face
    THEN Some([ direction         |-> GazeDirectionOf(f),
                gaze_detected     |-> f.gaze # None,
                looking_at_screen |-> GazeDirectionOf(f) = "center" ])
    ELSE None

\* calculate_violations that reads the orientation whether or not a face was
\* detected
calculate_violations_unguarded_pose(r) ==
    LET phone_detected ==
            IF r.detections # None THEN r.detections[1].phone_detected ELSE FALSE
        person_count ==
            IF r.detections # None THEN r.detections[1].persons_count ELSE 0
        face_detected ==
            IF r.face # None THEN r.face[1].detected ELSE FALSE
        orientation ==
            IF r.face # None THEN r.face[1].orientation ELSE ""
        looking_at_screen ==
            IF r.gaze # None THEN r.gaze[1].looking_at_screen ELSE TRUE
    IN  [ phone_violation |->
              IF config.ENABLE_PHONE_DETECTION THEN phone_detected ELSE FALSE,
          multiple_persons |->
              IF config.ENABLE_PERSON_COUNTING
              THEN person_count >= config.MULTIPLE_PERSON_THRESHOLD ELSE FALSE,
          no_face_detected |-> ~face_detected,
          not_facing_screen |->
              IF config.ENABLE_HEAD_POSE_DETECTION
              THEN orientation # "facing_screen" ELSE FALSE,
          not_looking_at_screen |->
              IF config.ENABLE_GAZE_DETECTION /\ face_detected
              THEN ~looking_at_screen ELSE FALSE ]

calculate_violations(r) ==
    LET phone_detected ==
            IF r.detections # None THEN r.detections[1].phone_detected ELSE FALSE
        person_count ==
            IF r.detections # None THEN r.detections[1].persons_count ELSE 0
        face_detected ==
            IF r.face # None THEN r.face[1].detected ELSE FALSE
        orientation ==
            IF r.face # None THEN r.face[1].orientation ELSE ""
        looking_at_screen ==
            IF r.gaze # None THEN r.gaze[1].looking_at_screen ELSE TRUE
    IN  [ phone_violation |->
              IF config.ENABLE_PHONE_DETECTION THEN phone_detected ELSE FALSE,
          multiple_persons |->
              IF config.ENABLE_PERSON_COUNTING
              THEN person_count >= config.MULTIPLE_PERSON_THRESHOLD ELSE FALSE,
          no_face_detected |-> ~face_detected,
          not_facing_screen |->
              IF config.ENABLE_HEAD_POSE_DETECTION /\ face_detected
              THEN orientation # "facing_screen" ELSE FALSE,
          not_looking_at_screen |->
              IF config.ENABLE_GAZE_DETECTION /\ face_detected
              THEN ~looking_at_screen ELSE FALSE ]

-----------------------------------------------------------------------------
(* camera_processor.py: the evidence snapshots *)

\* dict.get(violation_type, 0)
CooldownGet(violation_type) ==
    IF violation_type \in DOMAIN snapshot_cooldowns
    THEN snapshot_cooldowns[violation_type] ELSE 0

\* can_take_snapshot without its cooldown test
can_take_snapshot_no_cooldown(violation_type, current_time) ==
    IF ~config.ENABLE_VIOLATION_SNAPSHOTS THEN FALSE
    ELSE IF violation_type \notin snapshot_violations THEN FALSE
    ELSE IF /\ config.MAX_SNAPSHOTS_PER_SESSION > 0
            /\ snapshot_count >= config.MAX_SNAPSHOTS_PER_SESSION THEN FALSE
    ELSE TRUE

\* can_take_snapshot with the cap test off by one (> for >=)
can_take_snapshot_cap_off_by_one(violation_type, current_time) ==
    IF ~config.ENABLE_VIOLATION_SNAPSHOTS THEN FALSE
    ELSE IF violation_type \notin snapshot_violations THEN FALSE
    ELSE IF /\ config.MAX_SNAPSHOTS_PER_SESSION > 0
            /\ snapshot_count > config.MAX_SNAPSHOTS_PER_SESSION THEN FALSE
    ELSE IF current_time - CooldownGet(violation_type)
                < config.SNAPSHOT_COOLDOWN_SECONDS THEN FALSE
    ELSE TRUE

can_take_snapshot(violation_type, current_time) ==
    IF ~config.ENABLE_VIOLATION_SNAPSHOTS THEN FALSE
    ELSE IF violation_type \notin snapshot_violations THEN FALSE
    ELSE IF /\ config.MAX_SNAPSHOTS_PER_SESSION > 0
            /\ snapshot_count >= config.MAX_SNAPSHOTS_PER_SESSION THEN FALSE
    ELSE IF current_time - CooldownGet(violation_type)
                < config.SNAPSHOT_COOLDOWN_SECONDS THEN FALSE
    ELSE TRUE

\* cv2.imwrite returns True, returns False or raises
WriteOutcomes == { "ok", "fail", "raise" }

\* take_snapshot that records the capture time before it looks at the result
\* of the write
take_snapshot_records_first(violation_type, write, saved_time) ==
    /\ snapshot_cooldowns' =
           [ t \in DOMAIN snapshot_cooldowns \cup {violation_type} |->
                 IF t = violation_type THEN saved_time
                 ELSE snapshot_cooldowns[t] ]
    /\ snapshot_count' = IF write = "ok" THEN snapshot_count + 1 ELSE snapshot_count

\* take_snapshot that counts the capture before it looks at the result of the
\* write
take_snapshot_counts_attempts(violation_type, write, saved_time) ==
    /\ snapshot_count' = snapshot_count + 1
    /\ IF write = "ok"
       THEN snapshot_cooldowns' =
                [ t \in DOMAIN snapshot_cooldowns \cup {violation_type} |->
                      IF t = violation_type THEN saved_time
                      ELSE snapshot_cooldowns[t] ]
       ELSE UNCHANGED snapshot_cooldowns

\* take_snapshot: the image is written, which takes the clock from
\* current_time to saved_time; the ledger changes only when the write succeeded.
\* The result is the path (TRUE) or None (FALSE).
take_snapshot(violation_type, write, saved_time) ==
    IF write = "ok"
    THEN /\ snapshot_cooldowns' =
                [ t \in DOMAIN snapshot_cooldowns \cup {violation_type} |->
                      IF t = violation_type THEN saved_time
                      ELSE snapshot_cooldowns[t] ]
         /\ snapshot_count' = snapshot_count + 1
    ELSE UNCHANGED << snapshot_cooldowns, snapshot_count >>

\* the path take_snapshot returns: the file is named after the violation type
\* and the second at which take_snapshot was entered
SnapshotPath(violation_type, current_time) ==
    [ violation |-> violation_type, timestamp |-> current_time ]

EmptySnapshotInfo ==
    [ snapshot_taken |-> FALSE, snapshot_violations |-> << >>, snapshot_paths |-> << >> ]

\* what a loop iteration that has not run yet has seen
NoCheck ==
    [ visited |-> FALSE, active |-> FALSE, gate |-> FALSE, eligible |-> FALSE,
      room |-> FALSE, known |-> FALSE, waited |-> FALSE, passed |-> FALSE,
      retry |-> FALSE, write |-> "none", saved |-> FALSE ]

NoChecks == [ t \in ViolationTypes |-> NoCheck ]

\* process_frame up to the loop of process_violation_snapshots: the detectors
\* run and the flags are calculated; with snapshots disabled
\* process_violation_snapshots returns the empty snapshot_info at once.
process_frame(f) ==
    /\ pc = "idle"
    /\ frame' = Some(f)
    /\ LET detected ==
               [ EmptyResults EXCEPT !.detections = DetectionsOf(f),
                                     !.face = FaceOf(f),
                                     !.gaze = GazeOf(f) ]
           flagged ==
               [ detected EXCEPT !.violations = Some(calculate_violations(detected)) ]
       IN  IF ~config.ENABLE_VIOLATION_SNAPSHOTS
           THEN /\ results' = [ flagged EXCEPT !.snapshot = Some(EmptySnapshotInfo) ]
                /\ pc' = "return"
           ELSE /\ results' = flagged
                /\ pc' = "snapshots"
    /\ snapshot_info' = EmptySnapshotInfo
    /\ loop_index' = 1
    /\ checks' = NoChecks
    /\ UNCHANGED << config, clock, ledger, capture_log, write_failed >>

\* one iteration of the loop of process_violation_snapshots: for an active type
\* that can_take_snapshot lets through, take_snapshot writes the image; write
\* is what cv2.imwrite does (or would do) with this frame.  After the last
\* iteration snapshot_info becomes results['snapshot'].
process_violation_snapshots_step ==
    /\ pc = "snapshots"
    /\ LET violation_type == ViolationOrder[loop_index]
           is_active == results.violations[1][violation_type]
           gate == is_active /\ can_take_snapshot(violation_type, clock)
       IN  \E write \in WriteOutcomes, saved_time \in clock..(clock + MaxWriteTime) :
             /\ saved_time <= MaxClock
             /\ (is_active /\ violation_type \in snapshot_violations) \/ write = "ok"
             /\ gate \/ saved_time = clock
             /\ IF gate
                THEN take_snapshot(violation_type, write, saved_time)
                ELSE UNCHANGED << snapshot_cooldowns, snapshot_count >>
             /\ clock' = saved_time
             /\ snapshot_info' =
                    IF gate /\ write = "ok"
                    THEN [ snapshot_taken |-> TRUE,
                           snapshot_violations |->
                               Append(snapshot_info.snapshot_violations, violation_type),
                           snapshot_paths |->
                               Append(snapshot_info.snapshot_paths,
                                      SnapshotPath(violation_type, clock)) ]
                    ELSE snapshot_info
             /\ checks' =
                    [ checks EXCEPT ![violation_type] =
                        [ visited |-> TRUE,
                          active  |-> is_active,
                          gate    |-> gate,
                          eligible |-> violation_type \in snapshot_violations,
                          room    |-> \/ config.MAX_SNAPSHOTS_PER_SESSION = 0
                                      \/ snapshot_count < config.MAX_SNAPSHOTS_PER_SESSION,
                          known   |-> violation_type \in DOMAIN snapshot_cooldowns,
                          waited  |-> /\ violation_type \in DOMAIN snapshot_cooldowns
                                      /\ clock - snapshot_cooldowns[violation_type]
                                            >= config.SNAPSHOT_COOLDOWN_SECONDS,
                          passed  |-> clock - CooldownGet(violation_type)
                                        >= config.SNAPSHOT_COOLDOWN_SECONDS,
                          retry   |-> violation_type \in write_failed,
                          write   |-> IF is_active /\ violation_type \in snapshot_violations
                                      THEN write ELSE "none",
                          saved   |-> gate /\ write = "ok" ] ]
             /\ capture_log' =
                    IF gate /\ write = "ok"
                    THEN [ capture_log EXCEPT
                             ![violation_type] = Append(@, saved_time) ]
                    ELSE capture_log
             /\ write_failed' =
                    IF gate
                    THEN IF write = "ok" THEN write_failed \ {violation_type}
                         ELSE write_failed \cup {violation_type}
                    ELSE write_failed
    /\ IF loop_index < Len(ViolationOrder)
       THEN /\ loop_index' = loop_index + 1
            /\ UNCHANGED << pc, results >>
       ELSE /\ loop_index' = 1
            /\ pc' = "return"
            /\ results' = [ results EXCEPT !.snapshot = Some(snapshot_info') ]
    /\ UNCHANGED << config, snapshot_violations, frame >>

\* process_frame returns results to its caller; its locals are gone
process_frame_return ==
    /\ pc = "return"
    /\ pc' = "idle"
    /\ frame' = None
    /\ results' = EmptyResults
    /\ snapshot_info' = EmptySnapshotInfo
    /\ checks' = NoChecks
    /\ UNCHANGED << config, clock, ledger, loop_index, capture_log, write_failed >>

\* time passes between two frames
Tick ==
    /\ pc = "idle"
    /\ clock < MaxClock
    /\ clock' = clock + 1
    /\ UNCHANGED << config, ledger, frame_state, history, call, objects, lifecycle, stop >>

\* process_frame called on a processor, step by step
ProcessFrame(f) == process_frame(f) /\ UNCHANGED << call, objects, lifecycle, stop >>

SnapshotIteration == process_violation_snapshots_step /\ UNCHANGED << call, objects, lifecycle, stop >>

ProcessFrameReturn == process_frame_return /\ UNCHANGED << call, objects, lifecycle, stop >>

\* no pure function is being called
NoCall == [ fn |-> "none" ]

\* no stop signal has come while the loop was running; afterwards, where the
\* loop was when it came, and the frames processed and printed since
NoStop == [ at |-> "none", processed |-> 0, emitted |-> 0 ]

\* the life cycle of a processor that initialize() has made ready and whose
\* process_frame is called frame after frame
ReadyProcessor ==
    /\ main_pc = "frames"
    /\ config_valid = Some(TRUE)
    /\ warned = << >>
    /\ handlers = TRUE
    /\ initialized = TRUE
    /\ running = TRUE
    /\ frame_count = 0
    /\ camera = "open"
    /\ output = << "ready" >>
    /\ stop = NoStop

-----------------------------------------------------------------------------
(* The session of a processor: frames are processed one after the other *)

\* the configurations tried: snapshots on or off, and a session cap from 0
\* (unlimited) to MaxCap
SessionConfigs ==
    { [ DefaultConfig EXCEPT !.ENABLE_VIOLATION_SNAPSHOTS = e,
                             !.MAX_SNAPSHOTS_PER_SESSION = m ] :
        e \in BOOLEAN, m \in 0..MaxCap }

\* the violation types the session's frames raise
SessionTypes == { "phone_violation", "multiple_persons", "no_face_detected" }

\* the snapshot_violations lists a processor is constructed with
EligibleSets == { S \in SUBSET SessionTypes : Cardinality(S) <= 2 }

\* a detected face that faces the screen and looks at it
FacingPose == Some([ yaw |-> 0, pitch |-> 0 ])

\* the frames of the session: a phone or none, one person or three, no face
\* or a face that faces the screen and looks at its center
SessionFrames ==
    { [ phone |-> p, persons |-> n, face |-> fd,
        head_pose |-> IF fd THEN FacingPose ELSE None,
        gaze |-> IF fd THEN Some(0) ELSE None ] :
        p \in BOOLEAN, n \in {1, 3}, fd \in BOOLEAN }

\* CameraProcessor.__init__
Init ==
    /\ config \in SessionConfigs
    /\ clock = 0
    /\ snapshot_violations \in EligibleSets
    /\ snapshot_cooldowns = [ t \in {} |-> 0 ]
    /\ snapshot_count = 0
    /\ pc = "idle"
    /\ frame = None
    /\ results = EmptyResults
    /\ snapshot_info = EmptySnapshotInfo
    /\ loop_index = 1
    /\ checks = NoChecks
    /\ capture_log = [ t \in ViolationTypes |-> << >> ]
    /\ write_failed = {}
    /\ call = NoCall
    /\ FreshObjects
    /\ ReadyProcessor

Next ==
    \/ \E f \in SessionFrames : ProcessFrame(f)
    \/ SnapshotIteration
    \/ ProcessFrameReturn
    \/ Tick

Spec == Init /\ [][Next]_vars

-----------------------------------------------------------------------------
(* The claims about the evidence snapshots, checked under Spec *)

\* the frame in progress has run its snapshot loop and is about to return
FrameDone == pc = "return"

\* the types the frame in progress reports as captured
Reported(t) ==
    \E i \in 1..Len(snapshot_info.snapshot_violations) :
        snapshot_info.snapshot_violations[i] = t

\* the number of captures of the session
TotalCaptured ==
    LET n(i) == Len(capture_log[ViolationOrder[i]])
    IN  n(1) + n(2) + n(3) + n(4) + n(5)

\* C1: for every violation type, any two successful captures of that type
\* are at least SNAPSHOT_COOLDOWN_SECONDS apart, measured between their
\* recorded capture times.
C1_CapturesCooldownApart ==
    \A t \in ViolationTypes :
        \A i, j \in 1..Len(capture_log[t]) :
            i < j => capture_log[t][j] - capture_log[t][i]
                        >= config.SNAPSHOT_COOLDOWN_SECONDS

\* C1 witness: a type has been captured twice, and its last-capture time is
\* the recorded time of the second capture
C1_Witness ==
    \E t \in ViolationTypes :
        /\ Len(capture_log[t]) >= 2
        /\ snapshot_cooldowns[t] = capture_log[t][Len(capture_log[t])]

\* C2: when MAX_SNAPSHOTS_PER_SESSION is greater than 0 the number of
\* successful captures of the session never exceeds it.
C2_CapNeverExceeded ==
    config.MAX_SNAPSHOTS_PER_SESSION > 0 =>
        /\ snapshot_count <= config.MAX_SNAPSHOTS_PER_SESSION
        /\ TotalCaptured <= config.MAX_SNAPSHOTS_PER_SESSION

\* C2 witness: one frame with two eligible active types whose cooldowns let
\* them through, of which the first took the last capture under the cap
C2_Witness ==
    /\ FrameDone
    /\ config.MAX_SNAPSHOTS_PER_SESSION > 0
    /\ snapshot_count = config.MAX_SNAPSHOTS_PER_SESSION
    /\ \E a, b \in ViolationTypes :
          /\ a # b
          /\ checks[a].saved
          /\ checks[b].active /\ checks[b].eligible /\ ~checks[b].room
          /\ checks[b].waited /\ checks[b].write = "ok"
          /\ ~checks[b].saved

\* the loop iteration in progress is for type t and attempts the write
Attempts(t) ==
    /\ pc = "snapshots"
    /\ ViolationOrder[loop_index] = t
    /\ results.violations[1][t]
    /\ can_take_snapshot(t, clock)

\* C3: when the image write fails (returns failure or raises), the type's
\* last-capture time and the session counter are left unchanged, the frame
\* reports no capture for the type, and the type passes the capture test at
\* once again; and a type whose latest write failed is captured in its next
\* active frame when the cap leaves room and the write succeeds.
C3_FailedWriteConsumesNothing ==
    [][ \A t \in ViolationTypes :
          /\ (Attempts(t) /\ checks'[t].write \in {"fail", "raise"}) =>
                /\ snapshot_cooldowns' = snapshot_cooldowns
                /\ snapshot_count' = snapshot_count
                /\ snapshot_info' = snapshot_info
                /\ ~checks'[t].saved
                /\ can_take_snapshot(t, clock)'
          /\ ( /\ pc = "snapshots"
               /\ ViolationOrder[loop_index] = t
               /\ t \in write_failed
               /\ checks'[t].active /\ checks'[t].eligible /\ checks'[t].room
               /\ checks'[t].write = "ok" ) =>
                /\ checks'[t].saved
                /\ Reported(t)'
      ]_vars

\* C3 witness: a frame in which the write of one type failed, leaving it
\* unreported, while another type, whose write had failed before, is captured
C3_Witness ==
    \E t, u \in ViolationTypes :
        /\ FrameDone
        /\ checks[t].gate
        /\ checks[t].write \in {"fail", "raise"}
        /\ t \in write_failed
        /\ ~Reported(t)
        /\ checks[u].retry
        /\ Reported(u)

\* the claims' reading of "the time since the type's last capture is at least
\* the cooldown": a type that was never captured has no cooldown to wait for
Cooled(t) == ~checks[t].known \/ checks[t].waited

\* C4: in a processed frame a capture of type T is made if and only if
\* snapshots are enabled, T's flag is true, T is capture-eligible, the counter
\* is below the cap (or the cap is 0), the time since T's last capture is at
\* least the cooldown, and the image write succeeds.
C4_CaptureIffConditions ==
    FrameDone =>
        \A t \in ViolationTypes :
            Reported(t) <=>
                /\ config.ENABLE_VIOLATION_SNAPSHOTS
                /\ results.violations[1][t]
                /\ checks[t].eligible
                /\ checks[t].room
                /\ Cooled(t)
                /\ checks[t].write = "ok"

\* What the code does instead: the time is measured from the default 0 of
\* snapshot_cooldowns.get for a type that was never captured.
CaptureIffCodeConditions ==
    FrameDone =>
        \A t \in ViolationTypes :
            Reported(t) <=>
                /\ config.ENABLE_VIOLATION_SNAPSHOTS
                /\ results.violations[1][t]
                /\ checks[t].eligible
                /\ checks[t].room
                /\ checks[t].passed
                /\ checks[t].write = "ok"

\* C5: a capture-eligible type that was never captured in the session is
\* captured in the first frame in which it is active (cap not reached, write
\* succeeds), whatever the clock shows.
C5_FirstCaptureNeedsNoCooldown ==
    FrameDone =>
        \A t \in ViolationTypes :
            ( /\ config.ENABLE_VIOLATION_SNAPSHOTS
              /\ results.violations[1][t]
              /\ checks[t].eligible
              /\ ~checks[t].known
              /\ checks[t].room
              /\ checks[t].write = "ok" ) => Reported(t)

\* the value of snapshot_count when the frame in progress started
CountAtFrameStart == snapshot_count - Len(snapshot_info.snapshot_violations)

\* C6: cooldowns are per type: a capture changes only its own type's
\* last-capture time, and a frame in which phone_violation and
\* multiple_persons are both true and eligible captures both when each one's
\* own cooldown has elapsed and the cap leaves room for two (the writes
\* succeeding).
C6_BothCapturedInOneFrame ==
    FrameDone =>
      ( ( /\ config.ENABLE_VIOLATION_SNAPSHOTS
          /\ results.detections[1].phone_detected
          /\ results.detections[1].persons_count >= config.MULTIPLE_PERSON_THRESHOLD
          /\ {"phone_violation", "multiple_persons"} \subseteq snapshot_violations
          /\ Cooled("phone_violation") /\ Cooled("multiple_persons")
          /\ \/ config.MAX_SNAPSHOTS_PER_SESSION = 0
             \/ CountAtFrameStart + 2 <= config.MAX_SNAPSHOTS_PER_SESSION
          /\ checks["phone_violation"].write = "ok"
          /\ checks["multiple_persons"].write = "ok" )
        => /\ results.violations[1]["phone_violation"]
           /\ results.violations[1]["multiple_persons"]
           /\ Reported("phone_violation") /\ Reported("multiple_persons") )

\* What holds of the per-type part of C6: a loop iteration changes at most the
\* last-capture time of its own type.
CaptureChangesOnlyItsOwnTime ==
    [][ \A t \in DOMAIN snapshot_cooldowns :
          (pc = "snapshots" /\ ViolationOrder[loop_index] # t) =>
              /\ t \in DOMAIN snapshot_cooldowns'
              /\ snapshot_cooldowns'[t] = snapshot_cooldowns[t]
      ]_vars

-----------------------------------------------------------------------------
(* The violation flags of a frame: process_frame on every detector outcome,
   with the evidence snapshots switched off *)

FlagsConfig == [ DefaultConfig EXCEPT !.ENABLE_VIOLATION_SNAPSHOTS = FALSE ]

\* yaw and pitch on, just inside and just outside the facing ranges
YawValues ==
    { FlagsConfig.HEAD_FACING_SCREEN_YAW_MIN - 1, FlagsConfig.HEAD_FACING_SCREEN_YAW_MIN,
      0, FlagsConfig.HEAD_FACING_SCREEN_YAW_MAX, FlagsConfig.HEAD_FACING_SCREEN_YAW_MAX + 1 }

PitchValues ==
    { FlagsConfig.HEAD_FACING_SCREEN_PITCH_MIN - 1, FlagsConfig.HEAD_FACING_SCREEN_PITCH_MIN,
      0, FlagsConfig.HEAD_FACING_SCREEN_PITCH_MAX, FlagsConfig.HEAD_FACING_SCREEN_PITCH_MAX + 1 }

\* calculate_head_pose returns a pose, or None when the solver fails
HeadPoses ==
    { None } \cup { Some([ yaw |-> y, pitch |-> p ]) : y \in YawValues, p \in PitchValues }

\* smoothed gaze angles on and next to the direction thresholds
GazeAngles ==
    { FlagsConfig.GAZE_LEFT_THRESHOLD - 1, FlagsConfig.GAZE_LEFT_THRESHOLD,
      -FlagsConfig.GAZE_CENTER_THRESHOLD - 1, -FlagsConfig.GAZE_CENTER_THRESHOLD,
      0, FlagsConfig.GAZE_CENTER_THRESHOLD, FlagsConfig.GAZE_CENTER_THRESHOLD + 1,
      FlagsConfig.GAZE_RIGHT_THRESHOLD, FlagsConfig.GAZE_RIGHT_THRESHOLD + 1 }

\* estimate_gaze returns an angle, or the empty result
GazeOutcomes == { None } \cup { Some(a) : a \in GazeAngles }

\* what the detectors report of a frame; without a face there is neither a
\* head pose nor a gaze estimate
FlagsFrames ==
    { [ phone |-> p, persons |-> n, face |-> FALSE, head_pose |-> None, gaze |-> None ] :
        p \in BOOLEAN, n \in 0..MaxPersons }
    \cup
    { [ phone |-> p, persons |-> n, face |-> TRUE, head_pose |-> h, gaze |-> g ] :
        p \in BOOLEAN, n \in 0..MaxPersons, h \in HeadPoses, g \in GazeOutcomes }

InitFlags ==
    /\ config = FlagsConfig
    /\ clock = 0
    /\ snapshot_violations = FlagsConfig.DEFAULT_SNAPSHOT_VIOLATIONS
    /\ snapshot_cooldowns = [ t \in {} |-> 0 ]
    /\ snapshot_count = 0
    /\ pc = "idle"
    /\ frame = None
    /\ results = EmptyResults
    /\ snapshot_info = EmptySnapshotInfo
    /\ loop_index = 1
    /\ checks = NoChecks
    /\ capture_log = [ t \in ViolationTypes |-> << >> ]
    /\ write_failed = {}
    /\ call = NoCall
    /\ FreshObjects
    /\ ReadyProcessor

NextFlags ==
    \/ \E f \in FlagsFrames : ProcessFrame(f)
    \/ ProcessFrameReturn

SpecFlags == InitFlags /\ [][NextFlags]_vars

\* the head pose of the frame is outside the facing ranges
PoseOutOfRange(h) ==
    \/ h.yaw < config.HEAD_FACING_SCREEN_YAW_MIN
    \/ h.yaw > config.HEAD_FACING_SCREEN_YAW_MAX
    \/ h.pitch < config.HEAD_FACING_SCREEN_PITCH_MIN
    \/ h.pitch > config.HEAD_FACING_SCREEN_PITCH_MAX

\* C7: in every processed frame not_facing_screen is raised exactly when a face
\* is detected and its head pose has yaw or pitch outside the inclusive facing
\* ranges; a detected face with no head pose does not raise it.
C7_NotFacingIffPoseOutOfRange ==
    FrameDone =>
        ( results.violations[1].not_facing_screen
          <=> /\ frame[1].face
              /\ frame[1].head_pose # None
              /\ PoseOutOfRange(frame[1].head_pose[1]) )

\* what the code does: a detected face with no head pose raises the flag as well
NotFacingIffNoPoseOrOutOfRange ==
    FrameDone =>
        ( results.violations[1].not_facing_screen
          <=> /\ frame[1].face
              /\ \/ frame[1].head_pose = None
                 \/ PoseOutOfRange(frame[1].head_pose[1]) )

\* a frame with a face and no head pose has been processed and has the flag
NotFacingWithoutPose ==
    /\ FrameDone
    /\ frame[1].face
    /\ frame[1].head_pose = None
    /\ results.violations[1].not_facing_screen

-----------------------------------------------------------------------------
(* config.get_gaze_direction called on every angle, under the shipped
   thresholds and under every small ordered triple of thresholds *)

\* (left, right, center) with left < -center < center < right
OrderedThresholds ==
    { << DefaultConfig.GAZE_LEFT_THRESHOLD, DefaultConfig.GAZE_RIGHT_THRESHOLD,
         DefaultConfig.GAZE_CENTER_THRESHOLD >> }
    \cup
    { << l, r, c >> \in ((-4..-2) \X (2..4) \X (1..3)) : l < -c /\ c < r }

GazeConfigs ==
    { [ DefaultConfig EXCEPT !.GAZE_LEFT_THRESHOLD = t[1],
                             !.GAZE_RIGHT_THRESHOLD = t[2],
                             !.GAZE_CENTER_THRESHOLD = t[3] ] : t \in OrderedThresholds }

InitGaze ==
    /\ config \in GazeConfigs
    /\ clock = 0
    /\ snapshot_violations = DefaultConfig.DEFAULT_SNAPSHOT_VIOLATIONS
    /\ snapshot_cooldowns = [ t \in {} |-> 0 ]
    /\ snapshot_count = 0
    /\ pc = "idle"
    /\ frame = None
    /\ results = EmptyResults
    /\ snapshot_info = EmptySnapshotInfo
    /\ loop_index = 1
    /\ checks = NoChecks
    /\ capture_log = [ t \in ViolationTypes |-> << >> ]
    /\ write_failed = {}
    /\ \E a \in -MaxAngle..MaxAngle :
           call = [ fn |-> "get_gaze_direction", arg |-> a, ret |-> None ]
    /\ FreshObjects
    /\ ReadyProcessor

\* the call returns
GetGazeDirection ==
    /\ call.fn = "get_gaze_direction"
    /\ call.ret = None
    /\ call' = [ call EXCEPT !.ret = Some(get_gaze_direction(call.arg)) ]
    /\ UNCHANGED << config, clock, ledger, frame_state, history, objects, lifecycle, stop >>

NextGaze == GetGazeDirection

SpecGaze == InitGaze /\ [][NextGaze]_vars

\* the call of get_gaze_direction has returned
GazeReturned == call.fn = "get_gaze_direction" /\ call.ret # None

\* the shipped thresholds (-20, 20, 12) are in force
ShippedThresholds ==
    /\ config.GAZE_LEFT_THRESHOLD = -20
    /\ config.GAZE_RIGHT_THRESHOLD = 20
    /\ config.GAZE_CENTER_THRESHOLD = 12

\* C9: with left < -center < center < right, get_gaze_direction returns a
\* direction for every angle: 'center' exactly for -center <= a <= center,
\* 'left' for every a < -center and 'right' for every a > center; with
\* (-20, 20, 12): -25 and -20 and -15 are left, -12 and 0 and 12 are center,
\* 15 and 20 and 25 are right.
C9_GazeDirectionBands ==
    GazeReturned =>
        LET a == call.arg
            c == config.GAZE_CENTER_THRESHOLD
            d == call.ret[1]
        IN  /\ d \in { "left", "center", "right" }
            /\ d = "center" <=> (-c <= a /\ a <= c)
            /\ d = "left" <=> a < -c
            /\ d = "right" <=> a > c
            /\ ShippedThresholds =>
                   /\ a \in { -25, -20, -15 } => d = "left"
                   /\ a \in { -12, 0, 12 } => d = "center"
                   /\ a \in { 15, 20, 25 } => d = "right"

\* the call on the edge of the center band, under the shipped thresholds, has
\* returned 'center'
C9_Witness ==
    /\ GazeReturned
    /\ ShippedThresholds
    /\ call.arg = -12
    /\ call.ret = Some("center")

-----------------------------------------------------------------------------
(* config.py: validation; camera_processor.py: main() from the import of
   config to the end of cleanup *)

\* validate_config(): the errors, in the order the checks are made
validate_config ==
    LET check(failed, message) == IF failed THEN << message >> ELSE << >>
        errors ==
            check(~(0 <= config.PHONE_CONFIDENCE_THRESHOLD
                    /\ config.PHONE_CONFIDENCE_THRESHOLD <= 100),
                  "PHONE_CONFIDENCE_THRESHOLD must be between 0.0 and 1.0")
            \o check(~(0 <= config.PERSON_CONFIDENCE_THRESHOLD
                       /\ config.PERSON_CONFIDENCE_THRESHOLD <= 100),
                     "PERSON_CONFIDENCE_THRESHOLD must be between 0.0 and 1.0")
            \o check(config.GAZE_LEFT_THRESHOLD >= config.GAZE_RIGHT_THRESHOLD,
                     "GAZE_LEFT_THRESHOLD must be less than GAZE_RIGHT_THRESHOLD")
            \o check(config.HEAD_FACING_SCREEN_YAW_MIN >= config.HEAD_FACING_SCREEN_YAW_MAX,
                     "HEAD_FACING_SCREEN_YAW_MIN must be less than HEAD_FACING_SCREEN_YAW_MAX")
            \o check(config.HEAD_FACING_SCREEN_PITCH_MIN >= config.HEAD_FACING_SCREEN_PITCH_MAX,
                     "HEAD_FACING_SCREEN_PITCH_MIN must be less than HEAD_FACING_SCREEN_PITCH_MAX")
            \o check(config.CAMERA_WIDTH <= 0 \/ config.CAMERA_HEIGHT <= 0,
                     "Camera dimensions must be positive")
            \o check(config.TARGET_FPS <= 0, "TARGET_FPS must be positive")
            \o check(config.FRAME_SKIP < 1, "FRAME_SKIP must be >= 1")
    IN  [ is_valid |-> Len(errors) = 0, errors |-> errors ]

\* _output_status: one JSON line on stdout, recorded by its kind
output_status(kind) ==
    output' = IF config.JSON_OUTPUT_ENABLED THEN Append(output, kind) ELSE output

\* the import of config validates it and, when it is invalid, warns
ImportConfig ==
    /\ main_pc = "import"
    /\ config_valid' = Some(validate_config.is_valid)
    /\ warned' = IF validate_config.is_valid THEN << >> ELSE validate_config.errors
    /\ main_pc' = "construct"
    /\ UNCHANGED << config, clock, ledger, frame_state, history, call, objects,
                    handlers, initialized, running, frame_count, camera, output, stop >>

\* CameraProcessor.__init__, entered by the with statement of main()
Construct ==
    /\ main_pc = "construct"
    /\ snapshot_violations' = config.DEFAULT_SNAPSHOT_VIOLATIONS
    /\ snapshot_cooldowns' = [ t \in {} |-> 0 ]
    /\ snapshot_count' = 0
    /\ camera' = "none"
    /\ running' = FALSE
    /\ initialized' = FALSE
    /\ frame_count' = 0
    /\ handlers' = TRUE
    /\ main_pc' = "initialize"
    /\ UNCHANGED << config, clock, frame_state, history, call, objects,
                    config_valid, warned, output, stop >>

\* how initialize() ends: well, or at the camera, at a model, or in an exception
InitializeOutcomes == { "ok", "camera", "object_detector", "face_analyzer", "exception" }

\* initialize(); main() runs the processor when it returns True and leaves
\* through sys.exit(1), and so through cleanup, when it returns False
Initialize(outcome) ==
    /\ main_pc = "initialize"
    /\ camera' \in CASE outcome = "camera" -> { "closed" }
                   [] outcome = "exception" -> { "none", "closed", "open" }
                   [] OTHER -> { "open" }
    /\ initialized' = (outcome = "ok")
    /\ output_status(CASE outcome = "ok" -> "ready"
                       [] outcome = "camera" -> "camera_access_denied"
                       [] outcome = "object_detector" -> "model_load_failed"
                       [] outcome = "face_analyzer" -> "model_load_failed"
                       [] outcome = "exception" -> "initialization_failed")
    /\ main_pc' = IF outcome = "ok" THEN "run" ELSE "cleanup"
    /\ UNCHANGED << config, clock, ledger, frame_state, history, call, objects,
                    config_valid, warned, handlers, running, frame_count, stop >>

\* run() without its test of self.initialized
RunStart_unguarded ==
    /\ main_pc = "run"
    /\ running' = TRUE
    /\ main_pc' = "loop"
    /\ UNCHANGED << config, clock, ledger, frame_state, history, call, objects,
                    config_valid, warned, handlers, initialized, frame_count,
                    camera, output, stop >>

\* run() up to its loop
RunStart ==
    /\ main_pc = "run"
    /\ IF ~initialized
       THEN /\ output_status("not_initialized")
            /\ main_pc' = "cleanup"
            /\ UNCHANGED running
       ELSE /\ running' = TRUE
            /\ main_pc' = "loop"
            /\ UNCHANGED output
    /\ UNCHANGED << config, clock, ledger, frame_state, history, call, objects,
                    config_valid, warned, handlers, initialized, frame_count, camera, stop >>

\* while True: the loop test without the running flag
LoopTest_ignores_running ==
    /\ main_pc = "loop"
    /\ main_pc' = "read"
    /\ UNCHANGED << config, clock, ledger, frame_state, history, call, objects,
                    config_valid, warned, handlers, initialized, running,
                    frame_count, camera, output, stop >>

\* while self.running
LoopTest ==
    /\ main_pc = "loop"
    /\ main_pc' = IF running THEN "read" ELSE "finally"
    /\ UNCHANGED << config, clock, ledger, frame_state, history, call, objects,
                    config_valid, warned, handlers, initialized, running,
                    frame_count, camera, output, stop >>

\* camera.read(), the frame counter and the frame skip; a FRAME_SKIP of 0
\* raises ZeroDivisionError, which run() reports as a processing error
CameraRead(ret) ==
    /\ main_pc = "read"
    /\ ret => frame_count < MaxFrames
    /\ IF ~ret
       THEN /\ main_pc' = "loop"
            /\ UNCHANGED << frame_count, output >>
       ELSE /\ frame_count' = frame_count + 1
            /\ IF config.FRAME_SKIP = 0
               THEN /\ output_status("processing_error")
                    /\ main_pc' = "finally"
               ELSE /\ main_pc' = IF frame_count' % config.FRAME_SKIP # 0
                                  THEN "loop" ELSE "process"
                    /\ UNCHANGED output
    /\ UNCHANGED << config, clock, ledger, frame_state, history, call, objects,
                    config_valid, warned, handlers, initialized, running, camera, stop >>

\* results = self.process_frame(frame)
RunProcessFrame(f) ==
    /\ main_pc = "process"
    /\ process_frame(f)
    /\ main_pc' = "output"
    /\ stop' = IF stop.at # "none" THEN [ stop EXCEPT !.processed = @ + 1 ] ELSE stop
    /\ UNCHANGED << call, objects, config_valid, warned, handlers, initialized, running,
                    frame_count, camera, output >>

\* the results of the frame are printed
RunOutput ==
    /\ main_pc = "output"
    /\ process_frame_return
    /\ output_status("frame")
    /\ main_pc' = "loop"
    /\ stop' = IF stop.at # "none" THEN [ stop EXCEPT !.emitted = @ + 1 ] ELSE stop
    /\ UNCHANGED << call, objects, config_valid, warned, handlers, initialized, running,
                    frame_count, camera >>

\* the finally clause of run()
RunFinally ==
    /\ main_pc = "finally"
    /\ running' = FALSE
    /\ main_pc' = "cleanup"
    /\ UNCHANGED << config, clock, ledger, frame_state, history, call, objects,
                    config_valid, warned, handlers, initialized, frame_count,
                    camera, output, stop >>

\* cleanup(), called when the with statement of main() is left
Cleanup ==
    /\ main_pc = "cleanup"
    /\ camera' = IF camera # "none" THEN "released" ELSE camera
    /\ output_status("shutdown")
    /\ main_pc' = "done"
    /\ UNCHANGED << config, clock, ledger, frame_state, history, call, objects,
                    config_valid, warned, handlers, initialized, running, frame_count, stop >>

\* the positions of run() inside its loop
LoopPositions == { "loop", "read", "process", "output" }

\* _signal_handler: SIGINT or SIGTERM arrives once the handlers are installed
Signal ==
    /\ handlers
    /\ main_pc # "done"
    /\ running' = FALSE
    /\ stop' = IF running /\ main_pc \in LoopPositions /\ stop.at = "none"
               THEN [ stop EXCEPT !.at = main_pc ]
               ELSE stop
    /\ UNCHANGED << config, clock, ledger, frame_state, history, call, objects,
                    main_pc, config_valid, warned, handlers, initialized,
                    frame_count, camera, output >>

\* the shipped configuration with the evidence snapshots switched off
MainConfig == [ DefaultConfig EXCEPT !.ENABLE_VIOLATION_SNAPSHOTS = FALSE ]

\* configurations that fail one check of validate_config each
InvalidConfigs ==
    { [ MainConfig EXCEPT !.PHONE_CONFIDENCE_THRESHOLD = 150 ],
      [ MainConfig EXCEPT !.PERSON_CONFIDENCE_THRESHOLD = -10 ],
      [ MainConfig EXCEPT !.GAZE_LEFT_THRESHOLD = MainConfig.GAZE_RIGHT_THRESHOLD ],
      [ MainConfig EXCEPT !.HEAD_FACING_SCREEN_YAW_MIN = MainConfig.HEAD_FACING_SCREEN_YAW_MAX ],
      [ MainConfig EXCEPT !.HEAD_FACING_SCREEN_PITCH_MIN = MainConfig.HEAD_FACING_SCREEN_PITCH_MAX ],
      [ MainConfig EXCEPT !.CAMERA_WIDTH = 0 ],
      [ MainConfig EXCEPT !.TARGET_FPS = 0 ],
      [ MainConfig EXCEPT !.FRAME_SKIP = 0 ] }

MainConfigs == { MainConfig, [ MainConfig EXCEPT !.FRAME_SKIP = 2 ] } \cup InvalidConfigs

\* an empty seat, and a student facing and looking at the screen
MainFrames ==
    { [ phone |-> FALSE, persons |-> 0, face |-> FALSE, head_pose |-> None, gaze |-> None ],
      [ phone |-> FALSE, persons |-> 1, face |-> TRUE, head_pose |-> FacingPose,
        gaze |-> Some(0) ] }

\* the process starts: nothing imported, no processor yet
InitMain ==
    /\ config \in MainConfigs
    /\ clock = 0
    /\ snapshot_violations = {}
    /\ snapshot_cooldowns = [ t \in {} |-> 0 ]
    /\ snapshot_count = 0
    /\ pc = "idle"
    /\ frame = None
    /\ results = EmptyResults
    /\ snapshot_info = EmptySnapshotInfo
    /\ loop_index = 1
    /\ checks = NoChecks
    /\ capture_log = [ t \in ViolationTypes |-> << >> ]
    /\ write_failed = {}
    /\ call = NoCall
    /\ FreshObjects
    /\ main_pc = "import"
    /\ config_valid = None
    /\ warned = << >>
    /\ handlers = FALSE
    /\ initialized = FALSE
    /\ running = FALSE
    /\ frame_count = 0
    /\ camera = "none"
    /\ output = << >>
    /\ stop = NoStop

NextMain ==
    \/ ImportConfig
    \/ Construct
    \/ \E outcome \in InitializeOutcomes : Initialize(outcome)
    \/ RunStart
    \/ LoopTest
    \/ \E ret \in BOOLEAN : CameraRead(ret)
    \/ \E f \in MainFrames : RunProcessFrame(f)
    \/ RunOutput
    \/ RunFinally
    \/ Cleanup
    \/ Signal

SpecMain == InitMain /\ [][NextMain]_vars

\* a message of the kind has been printed
Printed(kind) == \E i \in 1..Len(output) : output[i] = kind

\* a frame has been processed
FrameProcessed == main_pc = "output" \/ Printed("frame")

\* C10: when validate_config reports an error the process does not start: it
\* prints no 'ready' notification and processes no frame.
C10_InvalidConfigNeverStarts ==
    config_valid = Some(FALSE) => ~Printed("ready") /\ ~FrameProcessed

\* what the code does with an invalid configuration: it warns, and nothing else
InvalidConfigOnlyWarns ==
    config_valid # None =>
        /\ config_valid = Some(validate_config.is_valid)
        /\ warned # << >> <=> config_valid = Some(FALSE)

\* under a configuration that validate_config rejects, 'ready' has been
\* printed and the results of a frame too
InvalidConfigStarted ==
    /\ config_valid = Some(FALSE)
    /\ Printed("ready")
    /\ Printed("frame")

-----------------------------------------------------------------------------
(* config.validate_config called on every small triple of gaze thresholds,
   ordered or not *)

\* the shipped configuration with the gaze thresholds replaced
ValidateConfigs ==
    { [ DefaultConfig EXCEPT !.GAZE_LEFT_THRESHOLD = l,
                             !.GAZE_RIGHT_THRESHOLD = r,
                             !.GAZE_CENTER_THRESHOLD = c ] :
        l \in -MaxThreshold..MaxThreshold,
        r \in -MaxThreshold..MaxThreshold,
        c \in -1..(MaxThreshold + 1) }

InitValidate ==
    /\ config \in ValidateConfigs
    /\ clock = 0
    /\ snapshot_violations = DefaultConfig.DEFAULT_SNAPSHOT_VIOLATIONS
    /\ snapshot_cooldowns = [ t \in {} |-> 0 ]
    /\ snapshot_count = 0
    /\ pc = "idle"
    /\ frame = None
    /\ results = EmptyResults
    /\ snapshot_info = EmptySnapshotInfo
    /\ loop_index = 1
    /\ checks = NoChecks
    /\ capture_log = [ t \in ViolationTypes |-> << >> ]
    /\ write_failed = {}
    /\ call = [ fn |-> "validate_config", ret |-> None ]
    /\ FreshObjects
    /\ ReadyProcessor

\* the call returns (is_valid, errors)
ValidateConfig ==
    /\ call.fn = "validate_config"
    /\ call.ret = None
    /\ call' = [ call EXCEPT !.ret = Some(validate_config) ]
    /\ UNCHANGED << config, clock, ledger, frame_state, history, objects, lifecycle, stop >>

NextValidate == ValidateConfig

SpecValidate == InitValidate /\ [][NextValidate]_vars

\* the call of validate_config has returned
ValidateReturned == call.fn = "validate_config" /\ call.ret # None

\* left_threshold < -center_tolerance < center_tolerance < right_threshold
GazeThresholdsOrdered ==
    /\ config.GAZE_LEFT_THRESHOLD < -config.GAZE_CENTER_THRESHOLD
    /\ -config.GAZE_CENTER_THRESHOLD < config.GAZE_CENTER_THRESHOLD
    /\ config.GAZE_CENTER_THRESHOLD < config.GAZE_RIGHT_THRESHOLD

\* C11: validate_config reports the configuration as invalid whenever the gaze
\* thresholds violate left < -center < center < right, for example when the
\* center tolerance is larger than the right threshold, not only when
\* left >= right.
C11_GazeOrderingValidated ==
    ValidateReturned => (~GazeThresholdsOrdered => ~call.ret[1].is_valid)

\* what the code does: the gaze thresholds fail validation exactly when
\* left >= right, whatever the center tolerance
GazeValidatedOnlyLeftRight ==
    ValidateReturned =>
        ( call.ret[1].is_valid
          <=> config.GAZE_LEFT_THRESHOLD < config.GAZE_RIGHT_THRESHOLD )

\* validate_config has accepted a center tolerance larger than the right
\* threshold
CenterAboveRightAccepted ==
    /\ ValidateReturned
    /\ config.GAZE_CENTER_THRESHOLD > config.GAZE_RIGHT_THRESHOLD
    /\ config.GAZE_LEFT_THRESHOLD < config.GAZE_RIGHT_THRESHOLD
    /\ call.ret[1].is_valid

-----------------------------------------------------------------------------
(* The two exponential moving averages, fed sample after sample *)

\* a processor between two frames, nothing captured yet
IdleSession ==
    /\ clock = 0
    /\ snapshot_violations = DefaultConfig.DEFAULT_SNAPSHOT_VIOLATIONS
    /\ snapshot_cooldowns = [ t \in {} |-> 0 ]
    /\ snapshot_count = 0
    /\ pc = "idle"
    /\ frame = None
    /\ results = EmptyResults
    /\ snapshot_info = EmptySnapshotInfo
    /\ loop_index = 1
    /\ checks = NoChecks
    /\ capture_log = [ t \in ViolationTypes |-> << >> ]
    /\ write_failed = {}

\* the samples tried: three angles, and the current average when there is one
SmoothInputs(current) ==
    { Whole(10), Whole(20), Whole(-7) }
    \cup (IF current = None THEN {} ELSE { current[1] })

InitSmooth ==
    /\ config = DefaultConfig
    /\ IdleSession
    /\ call = NoCall
    /\ ReadyProcessor
    /\ \E window \in 1..MaxWindow :
          /\ filter = ExponentialMovingAverage(window)
          /\ estimator = GazeEstimator(window)
          /\ trace = NoTrace(window, window)

\* filter.update(new_value)
FilterUpdate(new_value) ==
    /\ Len(trace.filter) < MaxUpdates
    /\ filter' = ExponentialMovingAverage_update(filter, new_value)
    /\ trace' = [ trace EXCEPT !.filter =
                    Append(@, [ before |-> filter.value, arg |-> new_value,
                                ret |-> filter'.value[1] ]) ]
    /\ UNCHANGED << config, clock, ledger, frame_state, history, call,
                    estimator, lifecycle, stop >>

\* estimator._smooth_gaze_angle(angle)
SmoothGazeAngle(angle) ==
    /\ Len(trace.estimator) < MaxUpdates
    /\ estimator' = smooth_gaze_angle(estimator, angle)
    /\ trace' = [ trace EXCEPT !.estimator =
                    Append(@, [ before |-> estimator.ema_angle, arg |-> angle,
                                ret |-> estimator'.ema_angle[1] ]) ]
    /\ UNCHANGED << config, clock, ledger, frame_state, history, call,
                    filter, lifecycle, stop >>

NextSmooth ==
    \/ \E new_value \in SmoothInputs(filter.value) : FilterUpdate(new_value)
    \/ \E angle \in SmoothInputs(estimator.ema_angle) : SmoothGazeAngle(angle)

SpecSmooth == InitSmooth /\ [][NextSmooth]_vars

\* the calls t made on a filter of the window given follow the moving average
\* with alpha = 2 / (window + 1), seeded with the first sample
FollowsEma(t, window) ==
    \A i \in 1..Len(t) :
        /\ t[i].before = (IF i = 1 THEN None ELSE Some(t[i - 1].ret))
        /\ t[i].before = None => t[i].ret = t[i].arg
        /\ t[i].before # None =>
              RatMul(Whole(window + 1), t[i].ret)
                  = RatAdd(RatMul(Whole(2), t[i].arg),
                           RatMul(Whole(window - 1), t[i].before[1]))
        /\ t[i].before = Some(t[i].arg) => t[i].ret = t[i].arg

\* with window 3 the inputs [10, 20] give [10, 15]
EmaExample(t, window) ==
    ( /\ window = 3
      /\ Len(t) >= 2
      /\ t[1].arg = Whole(10)
      /\ t[2].arg = Whole(20) )
    => t[1].ret = Whole(10) /\ t[2].ret = Whole(15)

FedBack(t) ==
    /\ Len(t) = 3
    /\ t[1].arg = Whole(10) /\ t[1].ret = Whole(10)
    /\ t[2].arg = Whole(20) /\ t[2].ret = Whole(15)
    /\ t[3].arg = Whole(15) /\ t[3].ret = Whole(15)

-----------------------------------------------------------------------------
(* GazeEstimator.estimate_gaze called frame after frame on samples of good,
   borderline and bad quality *)

\* samples that pass the geometry gates, of quality 0, 0.2 and 1, and one
\* without iris landmarks
QualitySamples ==
    { [ iris |-> TRUE, landmarks |-> "full", eye_width |-> 30,
        angle |-> Whole(0), quality |-> q ] : q \in { 0, 20, 100 } }
    \cup
    { [ iris |-> FALSE, landmarks |-> "full", eye_width |-> 30,
        angle |-> Whole(0), quality |-> 100 ] }

InitQuality ==
    /\ config = DefaultConfig
    /\ IdleSession
    /\ call = NoCall
    /\ FreshObjects
    /\ ReadyProcessor

\* estimator.estimate_gaze(iris_positions, head_pose, landmarks_2d)
EstimateGaze(s, head_pose) ==
    \E r \in { estimate_gaze(estimator, s, head_pose) } :
        /\ estimator' = r.est
        /\ call' = [ fn |-> "estimate_gaze", sample |-> s, head_pose |-> head_pose,
                     before |-> estimator, ret |-> r.result ]
        /\ trace' = [ trace EXCEPT !.quality = @ \o r.recorded ]
        /\ UNCHANGED << config, clock, ledger, frame_state, history, filter,
                        lifecycle, stop >>

NextQuality ==
    \E s \in QualitySamples :
        /\ Len(trace.quality) < MaxSamples
        /\ EstimateGaze(s, None)

SpecQuality == InitQuality /\ [][NextQuality]_vars

\* estimate_gaze has returned
GazeEstimated == call.fn = "estimate_gaze"

\* the sample of the last call passed the geometry gates
PassedGates ==
    /\ call.sample.iris
    /\ call.sample.landmarks = "full" => call.sample.eye_width >= call.before.min_eye_width_px

\* the last n entries of the sequence q
LastOf(q, n) ==
    IF Len(q) <= n THEN q ELSE SubSeq(q, Len(q) - n + 1, Len(q))

\* C13: a gaze sample that passed the geometry gates is dropped (direction
\* 'unknown', gaze_detected false) if and only if its quality is below 0.2
\* and the mean of the recorded quality history (the last at most 10 samples,
\* the current one included) is below the minimum-quality floor; so one frame
\* of quality 0 after nine frames of quality 1 is not dropped.
C13_DroppedIffPoorAndPoorMean ==
    (GazeEstimated /\ PassedGates) =>
        LET recent == LastOf(trace.quality, 10)
            quality == trace.quality[Len(trace.quality)]
            dropped == call.ret.direction = "unknown" /\ ~call.ret.gaze_detected
        IN  /\ quality = call.sample.quality
            /\ dropped <=> ( /\ quality < 20
                             /\ SeqSum(recent) < config.GAZE_MIN_QUALITY * Len(recent) )
            /\ ~dropped => /\ call.ret.gaze_detected
                           /\ call.ret.direction \in { "left", "center", "right" }
            /\ trace.quality = << 100, 100, 100, 100, 100, 100, 100, 100, 100, 0 >>
                   => ~dropped

\* nine frames of quality 1 and then one of quality 0, which is not dropped
C13_Witness ==
    /\ GazeEstimated
    /\ PassedGates
    /\ trace.quality = << 100, 100, 100, 100, 100, 100, 100, 100, 100, 0 >>
    /\ call.ret.gaze_detected
    /\ call.ret.direction = "center"

\* a sample of quality 0 has been dropped: the mean of the history is poor too
PoorSampleDropped ==
    /\ GazeEstimated
    /\ PassedGates
    /\ call.sample.quality = 0
    /\ call.ret.direction = "unknown"

\* C14: after any sequence of estimate_gaze calls the quality history holds at
\* most 10 entries, and they are the most recently recorded quality scores in
\* arrival order (the oldest is evicted first).
C14_HistoryIsLastTen ==
    /\ Len(estimator.quality_history) <= 10
    /\ estimator.quality_history = LastOf(trace.quality, 10)

\* an eleventh score has been recorded, so the first one has been evicted, and
\* the scores are not all the same
C14_Witness ==
    /\ Len(trace.quality) = 11
    /\ trace.quality[1] # trace.quality[2]
    /\ trace.quality[10] # trace.quality[11]
    /\ estimator.quality_history = Tail(trace.quality)

-----------------------------------------------------------------------------
(* detectors/gaze_estimator.py: eye aspect ratio and blink detection;
   utils/geometry.py: calculate_ear, calculate_ear_from_coords.
   An eye is given by the three distances the routines take from its
   landmarks, in pixels: horizontal (outer to inner corner), vertical_1
   (top to bottom) and vertical_2 (top inner to bottom inner). *)

RatDiv(x, y) == Rat(x[1] * y[2], x[2] * y[1])

\* GazeEstimator._calculate_eye_ear: None or the ratio
calculate_eye_ear(eye) ==
    IF eye.horizontal = Whole(0)
    THEN None
    ELSE Some(RatDiv(RatAdd(eye.vertical_1, eye.vertical_2),
                     RatMul(Whole(2), eye.horizontal)))

\* GazeEstimator.calculate_ear; landmarks is None when there are fewer than
\* 387 landmarks
calculate_ear(landmarks, eye) ==
    IF landmarks = None
    THEN [ left_ear |-> None, right_ear |-> None, avg_ear |-> None ]
    ELSE
        LET left_ear == IF eye \in { "left", "both" }
                        THEN calculate_eye_ear(landmarks[1].left) ELSE None
            right_ear == IF eye \in { "right", "both" }
                         THEN calculate_eye_ear(landmarks[1].right) ELSE None
            avg_ear ==
                IF left_ear # None /\ right_ear # None
                THEN Some(RatDiv(RatAdd(left_ear[1], right_ear[1]), Whole(2)))
                ELSE IF left_ear # None THEN left_ear
                ELSE IF right_ear # None THEN right_ear
                ELSE None
        IN  [ left_ear |-> left_ear, right_ear |-> right_ear, avg_ear |-> avg_ear ]

\* the EAR threshold of the estimator, kept in hundredths
EarThreshold(est) == Rat(est.ear_threshold, 100)

\* GazeEstimator.detect_blink deciding on either eye instead of the average
detect_blink_any_eye(est, ear_values) ==
    LET below(ear) == ear # None /\ RatLess(ear[1], EarThreshold(est))
    IN  [ is_blinking      |-> below(ear_values.left_ear) \/ below(ear_values.right_ear),
          left_eye_closed  |-> below(ear_values.left_ear),
          right_eye_closed |-> below(ear_values.right_ear),
          both_eyes_closed |-> below(ear_values.left_ear) /\ below(ear_values.right_ear),
          left_ear  |-> ear_values.left_ear,
          right_ear |-> ear_values.right_ear,
          avg_ear   |-> ear_values.avg_ear ]

\* GazeEstimator.detect_blink
detect_blink(est, ear_values) ==
    LET left_ear == ear_values.left_ear
        right_ear == ear_values.right_ear
        avg_ear == ear_values.avg_ear
        below(ear) == ear # None /\ RatLess(ear[1], EarThreshold(est))
        is_blinking ==
            IF avg_ear # None THEN below(avg_ear)
            ELSE below(left_ear) \/ below(right_ear)
        left_eye_closed ==
            IF avg_ear # None THEN below(avg_ear) ELSE below(left_ear)
        right_eye_closed ==
            IF avg_ear # None THEN below(avg_ear) ELSE below(right_ear)
    IN  [ is_blinking      |-> is_blinking,
          left_eye_closed  |-> IF left_ear # None THEN left_eye_closed ELSE FALSE,
          right_eye_closed |-> IF right_ear # None THEN right_eye_closed ELSE FALSE,
          both_eyes_closed |-> below(left_ear) /\ below(right_ear),
          left_ear  |-> left_ear,
          right_ear |-> right_ear,
          avg_ear   |-> avg_ear ]

\* utils.geometry.calculate_ear: always a number
geometry_calculate_ear(eye) ==
    IF RatLess(eye.horizontal, Rat(1, 1000000))
    THEN Whole(0)
    ELSE RatDiv(RatAdd(eye.vertical_1, eye.vertical_2),
                RatMul(Whole(2), eye.horizontal))

\* utils.geometry.calculate_ear_from_coords: always a number
geometry_calculate_ear_from_coords(eye) ==
    IF RatLess(eye.horizontal, Rat(1, 1000000))
    THEN Whole(0)
    ELSE RatDiv(RatAdd(eye.vertical_1, eye.vertical_2),
                RatMul(Whole(2), eye.horizontal))

\* eye widths: none, half a millionth of a pixel, and 50 pixels
EyeWidths == { Whole(0), Rat(1, 2000000), Whole(50) }

\* pairs of eye heights: shut, and at 50 pixels of width the ratios 0.2, 0.25
\* and 0.3
EyeHeights == { << 0, 0 >>, << 10, 10 >>, << 12, 13 >>, << 15, 15 >> }

Eyes ==
    { [ horizontal |-> h, vertical_1 |-> Whole(v[1]), vertical_2 |-> Whole(v[2]) ] :
        h \in EyeWidths, v \in EyeHeights }

\* the landmarks of a face, or too few of them
EarLandmarks ==
    { None } \cup { Some([ left |-> l, right |-> r ]) : l \in Eyes, r \in Eyes }

InitEar ==
    /\ config = DefaultConfig
    /\ IdleSession
    /\ FreshObjects
    /\ ReadyProcessor
    /\ \E landmarks \in EarLandmarks, eye \in { "left", "right", "both" } :
           call = [ fn |-> "ear", landmarks |-> landmarks, eye |-> eye,
                    ear |-> None, blink |-> None, geometry |-> None ]

\* estimator.calculate_ear(landmarks_2d, eye)
CalculateEar ==
    /\ call.fn = "ear"
    /\ call.ear = None
    /\ call' = [ call EXCEPT !.ear = Some(calculate_ear(call.landmarks, call.eye)) ]
    /\ UNCHANGED << config, clock, ledger, frame_state, history, objects, lifecycle, stop >>

\* estimator.detect_blink(ear_values), on what calculate_ear returned
DetectBlink ==
    /\ call.fn = "ear"
    /\ call.ear # None
    /\ call.blink = None
    /\ call' = [ call EXCEPT !.blink = Some(detect_blink(estimator, call.ear[1])) ]
    /\ UNCHANGED << config, clock, ledger, frame_state, history, objects, lifecycle, stop >>

\* the geometry helpers called on the landmarks of each eye
GeometryEar ==
    /\ call.fn = "ear"
    /\ call.landmarks # None
    /\ call.geometry = None
    /\ call' = [ call EXCEPT !.geometry =
                   Some([ side \in { "left", "right" } |->
                            [ ear |-> Some(geometry_calculate_ear(call.landmarks[1][side])),
                              from_coords |->
                                  Some(geometry_calculate_ear_from_coords(
                                           call.landmarks[1][side])) ] ]) ]
    /\ UNCHANGED << config, clock, ledger, frame_state, history, objects, lifecycle, stop >>

NextEar == CalculateEar \/ DetectBlink \/ GeometryEar

SpecEar == InitEar /\ [][NextEar]_vars

\* the horizontal distance of the eye is zero or nearly zero
NearlyZero(eye) == RatLess(eye.horizontal, Rat(1, 1000000))

\* C15: when an eye's horizontal distance is zero or nearly zero the eye
\* openness is undefined (no number), in GazeEstimator._calculate_eye_ear and
\* in the geometry helpers alike, so such an eye is never classified as closed.
C15_ZeroWidthEyeUndefined ==
    (call.fn = "ear" /\ call.landmarks # None) =>
        LET lm == call.landmarks[1]
        IN  /\ call.ear # None =>
                /\ NearlyZero(lm.left) => call.ear[1].left_ear = None
                /\ NearlyZero(lm.right) => call.ear[1].right_ear = None
            /\ call.blink # None =>
                /\ NearlyZero(lm.left) => ~call.blink[1].left_eye_closed
                /\ NearlyZero(lm.right) => ~call.blink[1].right_eye_closed
            /\ call.geometry # None =>
                \A side \in { "left", "right" } :
                    NearlyZero(lm[side]) =>
                        /\ call.geometry[1][side].ear = None
                        /\ call.geometry[1][side].from_coords = None

\* what the code does: the estimator's ratio is undefined exactly for a width
\* of exactly zero, and the geometry helpers return the number 0 below a
\* millionth of a pixel
ZeroWidthInCode ==
    (call.fn = "ear" /\ call.landmarks # None) =>
        LET lm == call.landmarks[1]
        IN  /\ (call.ear # None /\ call.eye = "both") =>
                /\ call.ear[1].left_ear = None <=> lm.left.horizontal = Whole(0)
                /\ call.ear[1].right_ear = None <=> lm.right.horizontal = Whole(0)
            /\ call.geometry # None =>
                \A side \in { "left", "right" } :
                    NearlyZero(lm[side]) =>
                        /\ call.geometry[1][side].ear = Some(Whole(0))
                        /\ call.geometry[1][side].from_coords = Some(Whole(0))

\* the geometry helper has returned the number 0 for an eye of width zero
GeometryEarZeroForZeroWidth ==
    /\ call.fn = "ear"
    /\ call.landmarks # None
    /\ call.landmarks[1].left.horizontal = Whole(0)
    /\ call.geometry # None
    /\ call.geometry[1].left.ear = Some(Whole(0))

\* C16: the blink decision uses the mean of the two eyes' ratios when both
\* exist and otherwise the single ratio that exists; is_blinking is true
\* exactly when that ratio is strictly below the EAR threshold, and false when
\* neither eye yields a ratio.
C16_BlinkOnMeanOrSingleRatio ==
    (call.fn = "ear" /\ call.blink # None) =>
        LET l == call.ear[1].left_ear
            r == call.ear[1].right_ear
            chosen == IF l # None /\ r # None
                      THEN Some(RatDiv(RatAdd(l[1], r[1]), Whole(2)))
                      ELSE IF l # None THEN l ELSE r
        IN  /\ call.ear[1].avg_ear = chosen
            /\ call.blink[1].is_blinking
               <=> ( /\ chosen # None
                     /\ RatLess(chosen[1], Rat(config.BLINK_EAR_THRESHOLD, 100)) )
            /\ (l = None /\ r = None) => ~call.blink[1].is_blinking

\* ratios 0.2 and 0.3: their mean is the threshold 0.25, which is no blink
C16_Witness ==
    /\ call.fn = "ear"
    /\ call.blink # None
    /\ call.ear[1].left_ear = Some(Rat(20, 100))
    /\ call.ear[1].right_ear = Some(Rat(30, 100))
    /\ call.ear[1].avg_ear = Some(Rat(25, 100))
    /\ ~call.blink[1].is_blinking

-----------------------------------------------------------------------------
(* main() under a scheduler that lets the process take its next step *)

\* a step of the process itself, as opposed to the arrival of a signal
MainStep ==
    \/ ImportConfig
    \/ Construct
    \/ \E outcome \in InitializeOutcomes : Initialize(outcome)
    \/ RunStart
    \/ LoopTest
    \/ \E ret \in BOOLEAN : CameraRead(ret)
    \/ \E f \in MainFrames : RunProcessFrame(f)
    \/ RunOutput
    \/ RunFinally
    \/ Cleanup

SpecMainLive == InitMain /\ [][NextMain]_vars /\ WF_vars(MainStep)

\* run() has returned
RunReturned == main_pc \in { "cleanup", "done" }

\* the frames a stop signal leaves to process and to print: the frame that
\* process_frame is about to take, the frame whose results are about to be
\* printed, at most the frame that the camera read in progress delivers, and
\* none when the signal comes at the loop test
StopCompletesFrameInFlight ==
    /\ stop.processed <= 1
    /\ stop.emitted <= 1
    /\ stop.at = "loop" => stop.processed = 0 /\ stop.emitted = 0
    /\ stop.at = "output" => stop.processed = 0
    /\ (RunReturned /\ stop.at # "none") =>
           /\ stop.at = "process" => stop.processed = 1 /\ stop.emitted = 1
           /\ stop.at = "output" => stop.emitted = 1
           /\ stop.at = "read" => stop.emitted = stop.processed

\* C17: once a stop signal is received while the main loop is running, the
\* frame in flight (if any) is processed to completion and its result
\* emitted, no further frame is processed, and run() eventually returns, also
\* when camera reads keep failing.
C17_StopEndsLoop ==
    /\ [] StopCompletesFrameInFlight
    /\ (stop.at # "none") ~> RunReturned

\* the signal came while a frame was about to be processed; the frame was
\* processed and printed, and run() has returned
C17_Witness ==
    /\ stop.at = "process"
    /\ stop.processed = 1
    /\ stop.emitted = 1
    /\ main_pc = "done"

-----------------------------------------------------------------------------
(* The processor under main() and under a caller that runs it regardless *)

\* a caller that, unlike main(), calls run() although initialize() returned False
InitializeIgnored(outcome) ==
    /\ outcome # "ok"
    /\ Initialize(outcome)!1
    /\ Initialize(outcome)!2
    /\ Initialize(outcome)!3
    /\ Initialize(outcome)!4
    /\ main_pc' = "run"
    /\ Initialize(outcome)!6

NextProcessor ==
    \/ NextMain
    \/ \E outcome \in InitializeOutcomes : InitializeIgnored(outcome)

SpecProcessor == InitMain /\ [][NextProcessor]_vars

\* the number of messages of the kind that have been printed
PrintedCount(kind) == Cardinality({ i \in 1..Len(output) : output[i] = kind })

\* 'ready' once at most and before every result, 'shutdown' once at most and
\* last, once exactly when main() is over
NotificationsEncloseResults ==
    /\ PrintedCount("ready") <= 1
    /\ PrintedCount("shutdown") <= 1
    /\ \A i \in 1..Len(output) :
           /\ output[i] = "frame" => \E j \in 1..(i - 1) : output[j] = "ready"
           /\ output[i] = "shutdown" => i = Len(output)
    /\ main_pc = "done" => PrintedCount("shutdown") = 1

\* no frame is processed by a processor that is not initialized
UninitializedProcessesNothing ==
    ~initialized => ~FrameProcessed /\ main_pc \notin LoopPositions

\* run() on a processor that is not initialized prints the error and returns
RunRefusesUninitialized ==
    (main_pc = "run" /\ ~initialized /\ main_pc' # "run") =>
        /\ output' = Append(output, "not_initialized")
        /\ main_pc' = "cleanup"
        /\ frame_count' = frame_count

\* C18: in a run of main(), every per-frame result is emitted after the single
\* 'ready' notification and before the 'shutdown' notification; run() on a
\* processor whose initialize did not succeed emits a not_initialized error
\* and processes no frame; and 'shutdown' is emitted exactly once, also when
\* initialization fails.
C18_ReadyResultsShutdown ==
    /\ [] NotificationsEncloseResults
    /\ [] UninitializedProcessesNothing
    /\ [][RunRefusesUninitialized]_vars

\* run() was called after a failed initialize: the error and then 'shutdown'
\* were printed, and no result
C18_Witness ==
    /\ main_pc = "done"
    /\ ~initialized
    /\ Printed("not_initialized")
    /\ output[Len(output)] = "shutdown"
    /\ ~Printed("frame")

\* main() after a successful initialize: 'ready', two results, 'shutdown'
ResultsBetweenReadyAndShutdown ==
    /\ main_pc = "done"
    /\ output = << "ready", "frame", "frame", "shutdown" >>

-----------------------------------------------------------------------------
(* process_frame with the exceptions that its own handler catches *)

\* the statements of the try block of process_frame outside every step's own
\* handler, named by the part of the results they were building
RaisePoints == { "detections", "face", "gaze" }

\* an exception leaves the try block of process_frame before the violations
\* are calculated: the handler adds results['error'] and the results keep what
\* they held, 'violations' still the empty dict and 'snapshot' never set
process_frame_raises(f, at) ==
    /\ pc = "idle"
    /\ frame' = Some(f)
    /\ results' =
           CASE at = "detections" -> EmptyResults
             [] at = "face" -> [ EmptyResults EXCEPT !.detections = DetectionsOf(f) ]
             [] at = "gaze" -> [ EmptyResults EXCEPT !.detections = DetectionsOf(f),
                                                      !.face = FaceOf(f) ]
    /\ pc' = "return"
    /\ snapshot_info' = EmptySnapshotInfo
    /\ loop_index' = 1
    /\ checks' = NoChecks
    /\ UNCHANGED << config, clock, ledger, capture_log, write_failed >>

\* an exception leaves process_violation_snapshots, whose loop and whose
\* can_take_snapshot have no handler: results['violations'] is set,
\* results['snapshot'] is not
process_violation_snapshots_raises ==
    /\ pc = "snapshots"
    /\ pc' = "return"
    /\ loop_index' = 1
    /\ UNCHANGED << config, clock, ledger, frame, results, snapshot_info, checks,
                    capture_log, write_failed >>

\* the call of process_frame that has results['error']
Raised(at) == [ fn |-> "process_frame", error |-> at ]

FrameStart(f) ==
    /\ process_frame(f)
    /\ call' = NoCall
    /\ UNCHANGED << objects, lifecycle, stop >>

FrameRaises(f, at) ==
    /\ process_frame_raises(f, at)
    /\ call' = Raised(at)
    /\ UNCHANGED << objects, lifecycle, stop >>

SnapshotsRaise ==
    /\ process_violation_snapshots_raises
    /\ call' = Raised("snapshot")
    /\ UNCHANGED << objects, lifecycle, stop >>

\* snapshots on or off, no session cap
FrameConfigs ==
    { [ DefaultConfig EXCEPT !.ENABLE_VIOLATION_SNAPSHOTS = e,
                             !.MAX_SNAPSHOTS_PER_SESSION = 0 ] : e \in BOOLEAN }

\* the frames: what the detectors report, their empty results included (no
\* phone and no person when ObjectDetector.detect fails, no face when
\* FaceAnalyzer.detect_face fails, no gaze when estimate_gaze fails)
StepFrames ==
    { [ phone |-> p, persons |-> n, face |-> fd,
        head_pose |-> IF fd THEN FacingPose ELSE None,
        gaze |-> IF fd /\ g THEN Some(0) ELSE None ] :
        p \in BOOLEAN, n \in {0, 1}, fd \in BOOLEAN, g \in BOOLEAN }

InitFrame ==
    /\ config \in FrameConfigs
    /\ IdleSession
    /\ call = NoCall
    /\ FreshObjects
    /\ ReadyProcessor

NextFrame ==
    \/ \E f \in StepFrames : FrameStart(f)
    \/ \E f \in StepFrames, at \in RaisePoints : FrameRaises(f, at)
    \/ SnapshotIteration
    \/ SnapshotsRaise
    \/ ProcessFrameReturn
    \/ Tick

SpecFrame == InitFrame /\ [][NextFrame]_vars

\* the record that process_frame is about to return has its five flags
HasAllFlags ==
    /\ results.violations # None
    /\ DOMAIN results.violations[1] = ViolationTypes

\* the record that process_frame is about to return has the outcome of the
\* evidence capture
HasSnapshotOutcome == results.snapshot # None

\* C19: every per-frame result record that process_frame returns carries all
\* five violation flags and an evidence-capture outcome, also for a frame in
\* which a processing step fails internally.
C19_ResultAlwaysComplete ==
    pc = "return" => HasAllFlags /\ HasSnapshotOutcome

\* what the code does: the record is complete unless process_frame's own
\* handler caught an exception; then it has no evidence-capture outcome, and
\* no flags either when the exception came before they were calculated
ResultCompleteUnlessRaised ==
    pc = "return" =>
        /\ call = NoCall => HasAllFlags /\ HasSnapshotOutcome
        /\ call # NoCall => ~HasSnapshotOutcome
        /\ (call # NoCall /\ call.error \in RaisePoints) => results.violations = None
        /\ call = Raised("snapshot") => HasAllFlags

\* process_frame is about to return a record without flags and without an
\* evidence-capture outcome
ResultWithoutFlags ==
    /\ pc = "return"
    /\ call = Raised("gaze")
    /\ results.face # None
    /\ results.violations = None
    /\ results.snapshot = None

-----------------------------------------------------------------------------
(* process_frame with the face analyzer's head pose and the gaze estimator *)

\* FaceAnalyzer.detect_face: no face found, or a face with the head pose that
\* calculate_head_pose returns, None when solvePnP fails
detect_face(found, head_pose) ==
    IF ~found
    THEN [ face_detected |-> FALSE, head_pose |-> None ]
    ELSE [ face_detected |-> TRUE, head_pose |-> head_pose ]

\* GazeEstimator.is_facing_screen
estimator_is_facing_screen(head_pose) ==
    IF head_pose = None THEN FALSE
    ELSE is_facing_screen(head_pose[1].yaw, head_pose[1].pitch)

\* GazeEstimator.analyze giving up on a face without a head pose
analyze_needs_head_pose(est, s, landmarks, head_pose) ==
    IF head_pose = None
    THEN [ est |-> est,
           gaze |-> empty_gaze_result(est),
           blink |-> detect_blink(est, calculate_ear(None, "both")),
           facing_screen |-> FALSE,
           recorded |-> << >> ]
    ELSE LET r == estimate_gaze(est, s, head_pose)
         IN  [ est |-> r.est,
               gaze |-> r.result,
               blink |-> detect_blink(est, calculate_ear(landmarks, "both")),
               facing_screen |-> estimator_is_facing_screen(head_pose),
               recorded |-> r.recorded ]

\* GazeEstimator.analyze: the estimator after the call, the parts of the dict
\* returned, and the quality score recorded, if any
analyze(est, s, landmarks, head_pose) ==
    LET r == estimate_gaze(est, s, head_pose)
    IN  [ est |-> r.est,
          gaze |-> r.result,
          blink |-> detect_blink(est, calculate_ear(landmarks, "both")),
          facing_screen |-> estimator_is_facing_screen(head_pose),
          recorded |-> r.recorded ]

\* results['gaze'] from the dict that analyze returned
GazeOfAnalysis(gaze) ==
    Some([ direction         |-> gaze.direction,
           gaze_detected     |-> gaze.gaze_detected,
           looking_at_screen |-> gaze.direction = "center" ])

\* process_frame on a frame d (what ObjectDetector.detect and detect_face
\* find in it) whose face, if any, gives the gaze sample s and the eye
\* landmarks given
AnalyzeFrame(d, s, landmarks) ==
    /\ pc = "idle"
    /\ frame' = Some(d)
    /\ \E a \in { IF d.face
                  THEN Some(analyze(estimator, s, landmarks, d.head_pose))
                  ELSE None } :
         /\ estimator' = IF a # None THEN a[1].est ELSE estimator
         /\ trace' = IF a # None
                     THEN [ trace EXCEPT !.quality = @ \o a[1].recorded ]
                     ELSE trace
         /\ call' = [ fn |-> "process_frame",
                      face |-> detect_face(d.face, d.head_pose),
                      sample |-> s, landmarks |-> landmarks,
                      before |-> estimator,
                      gaze |-> IF a # None THEN Some(a[1].gaze) ELSE None,
                      blink |-> IF a # None THEN Some(a[1].blink) ELSE None ]
         /\ LET detected ==
                    [ EmptyResults EXCEPT
                        !.detections = DetectionsOf(d),
                        !.face = FaceOf(d),
                        !.gaze = IF a # None THEN GazeOfAnalysis(a[1].gaze) ELSE None ]
                flagged ==
                    [ detected EXCEPT !.violations = Some(calculate_violations(detected)) ]
            IN  IF ~config.ENABLE_VIOLATION_SNAPSHOTS
                THEN /\ results' = [ flagged EXCEPT !.snapshot = Some(EmptySnapshotInfo) ]
                     /\ pc' = "return"
                ELSE /\ results' = flagged
                     /\ pc' = "snapshots"
    /\ snapshot_info' = EmptySnapshotInfo
    /\ loop_index' = 1
    /\ checks' = NoChecks
    /\ UNCHANGED << config, clock, ledger, capture_log, write_failed, filter,
                    lifecycle, stop >>

\* the head poses: none (solvePnP failed), facing the screen, turned away
PoseOutcomes ==
    { None, Some([ yaw |-> 10, pitch |-> 0 ]), Some([ yaw |-> 30, pitch |-> 0 ]) }

\* the frames: a phone or none, one person or three, no face or a face with
\* one of the head poses
PoseFrames ==
    { [ phone |-> p, persons |-> n, face |-> FALSE, head_pose |-> None, gaze |-> None ] :
        p \in BOOLEAN, n \in {1, 3} }
    \cup
    { [ phone |-> p, persons |-> n, face |-> TRUE, head_pose |-> h, gaze |-> None ] :
        p \in BOOLEAN, n \in {1, 3}, h \in PoseOutcomes }

\* the gaze samples: the iris at 10 degrees right or 20 degrees left with the
\* eyes agreeing well or badly, and no iris found
PoseSamples ==
    { [ iris |-> TRUE, landmarks |-> "full", eye_width |-> 30,
        angle |-> Whole(a), quality |-> q ] : a \in { 10, -20 }, q \in { 10, 100 } }
    \cup
    { [ iris |-> FALSE, landmarks |-> "full", eye_width |-> 30,
        angle |-> Whole(0), quality |-> 100 ] }

\* the eyes of the face: both open (ratio 0.3) or both shut
PoseLandmarks ==
    { Some([ left  |-> [ horizontal |-> Whole(50), vertical_1 |-> Whole(v),
                         vertical_2 |-> Whole(v) ],
             right |-> [ horizontal |-> Whole(50), vertical_1 |-> Whole(v),
                         vertical_2 |-> Whole(v) ] ]) : v \in { 0, 15 } }

\* snapshots disabled: process_frame is over once the flags are calculated
PoseConfig == [ DefaultConfig EXCEPT !.ENABLE_VIOLATION_SNAPSHOTS = FALSE ]

InitPose ==
    /\ config = PoseConfig
    /\ IdleSession
    /\ call = NoCall
    /\ FreshObjects
    /\ ReadyProcessor

NextPose ==
    \/ \E d \in PoseFrames, s \in PoseSamples, landmarks \in PoseLandmarks :
           /\ Len(trace.quality) < MaxUpdates
           /\ AnalyzeFrame(d, s, landmarks)
    \/ ProcessFrameReturn

SpecPose == InitPose /\ [][NextPose]_vars

\* process_frame is about to return the results of a frame whose face was
\* detected and whose head pose the solver did not give
PoseFailed ==
    /\ pc = "return"
    /\ call.fn = "process_frame"
    /\ call.face.face_detected
    /\ call.face.head_pose = None

\* the sample passes the gates of estimate_gaze
GoodSample(s) == s.iris /\ s.eye_width >= config.GAZE_MIN_EYE_WIDTH_PX /\ s.quality >= 20

\* the smoothed angle of a sample taken as it is, without the head's yaw
Uncompensated(est, s) ==
    IF est.ema_angle = None THEN s.angle
    ELSE RatAdd(RatMul(est.alpha, s.angle),
                RatMul(RatSub(Whole(1), est.alpha), est.ema_angle[1]))

\* C20: when the pose solver fails on a frame whose face was detected, the
\* face result keeps face_detected = true with a null head pose (distinct
\* from the no-face result), gaze and blink are still computed for that frame
\* (gaze without head-pose compensation), and the phone and multiple-persons
\* flags are unaffected.
C20_PoseFailureKeepsFaceGazeBlink ==
    PoseFailed =>
        /\ call.face # detect_face(FALSE, None)
        /\ results.face[1].detected
        /\ results.face[1].head_pose = None
        /\ results.gaze # None
        /\ call.gaze # None
        /\ call.blink # None
        /\ GoodSample(call.sample) =>
               /\ call.gaze[1].gaze_detected
               /\ results.gaze[1].gaze_detected
               /\ call.gaze[1].horizontal_angle = Uncompensated(call.before, call.sample)
        /\ call.blink[1].avg_ear # None
        /\ call.blink[1].is_blinking
               = RatLess(call.blink[1].avg_ear[1], EarThreshold(call.before))
        /\ results.violations[1].phone_violation = frame[1].phone
        /\ results.violations[1].multiple_persons
               = (frame[1].persons >= config.MULTIPLE_PERSON_THRESHOLD)
        /\ ~results.violations[1].no_face_detected

\* a frame with a phone, three persons and a face without head pose, shut
\* eyes and the iris 20 degrees left, after an earlier sample: the gaze is
\* detected, the blink too, and both flags are raised
C20_Witness ==
    /\ PoseFailed
    /\ call.before.ema_angle # None
    /\ call.sample.angle = Whole(-20)
    /\ call.gaze[1].gaze_detected
    /\ call.gaze[1].direction = "left"
    /\ call.blink[1].is_blinking
    /\ results.violations[1].phone_violation
    /\ results.violations[1].multiple_persons

-----------------------------------------------------------------------------
(* The session of a processor whose snapshot configuration is updated *)

\* update_snapshot_config starting the ledger afresh
update_snapshot_config_resets(violations) ==
    /\ snapshot_violations' = violations
    /\ snapshot_cooldowns' = [ t \in {} |-> 0 ]
    /\ snapshot_count' = 0

\* update_snapshot_config: self.snapshot_violations = set(violations)
update_snapshot_config(violations) ==
    /\ snapshot_violations' = violations
    /\ UNCHANGED << snapshot_cooldowns, snapshot_count >>

\* the processor's owner calls update_snapshot_config between two frames
UpdateSnapshotConfig(violations) ==
    /\ pc = "idle"
    /\ update_snapshot_config(violations)
    /\ call' = [ fn |-> "update_snapshot_config", violations |-> violations,
                 before |-> snapshot_violations, at |-> clock ]
    /\ UNCHANGED << config, clock, frame_state, history, objects, lifecycle, stop >>

\* the lists given to update_snapshot_config
UpdateSets == { {}, { "phone_violation" } }

\* the frames: a phone or none, before one person who faces the screen
LedgerFrames ==
    { [ phone |-> p, persons |-> 1, face |-> TRUE,
        head_pose |-> FacingPose, gaze |-> Some(0) ] : p \in BOOLEAN }

InitLedger ==
    /\ config = DefaultConfig
    /\ IdleSession
    /\ call = NoCall
    /\ FreshObjects
    /\ ReadyProcessor

NextLedger ==
    \/ \E f \in LedgerFrames : ProcessFrame(f)
    \/ SnapshotIteration
    \/ ProcessFrameReturn
    \/ Tick
    \/ \E violations \in UpdateSets : UpdateSnapshotConfig(violations)

SpecLedger == InitLedger /\ [][NextLedger]_vars

\* a step of update_snapshot_config leaves the last-capture times and the
\* counter as they are
UpdateKeepsLedger ==
    (call' # call /\ call'.fn = "update_snapshot_config") =>
        /\ snapshot_violations' = call'.violations
        /\ snapshot_cooldowns' = snapshot_cooldowns
        /\ snapshot_count' = snapshot_count

\* no step of the session takes a last-capture time away or back, or lowers
\* the counter
LedgerOnlyGrows ==
    /\ snapshot_count' >= snapshot_count
    /\ \A t \in DOMAIN snapshot_cooldowns :
           /\ t \in DOMAIN snapshot_cooldowns'
           /\ snapshot_cooldowns'[t] >= snapshot_cooldowns[t]

\* the captures of a type are a cooldown apart, whatever updates came between
CooldownSurvivesUpdates ==
    \A t \in ViolationTypes :
        \A i \in 1..(Len(capture_log[t]) - 1) :
            capture_log[t][i + 1] - capture_log[t][i] >= config.SNAPSHOT_COOLDOWN_SECONDS

\* C21: the capture ledger is never reset during a session:
\* update_snapshot_config changes only the set of capture-eligible violation
\* types and leaves every last-capture time and the capture counter
\* unchanged, so a type removed from the set and later re-added still obeys
\* the cooldown from its last capture, and the counter never decreases.
C21_LedgerNeverReset ==
    /\ [][UpdateKeepsLedger]_vars
    /\ [][LedgerOnlyGrows]_vars
    /\ [] CooldownSurvivesUpdates

\* phone_violation was captured, taken off the list, put back on it by the
\* latest update, and has been captured again since
C21_Witness ==
    /\ call.fn = "update_snapshot_config"
    /\ "phone_violation" \in call.violations \ call.before
    /\ Len(capture_log["phone_violation"]) = 2
    /\ capture_log["phone_violation"][1] < call.at
    /\ capture_log["phone_violation"][2] >= call.at
    /\ snapshot_count = 2

-----------------------------------------------------------------------------
(* The loop of run() with the frames numbered and their processing timed *)

\* what the loop has done so far: the numbers (frame_count) of the frames
\* given to process_frame and of those whose results were printed, in order,
\* and the numbers of the frames that took longer than the maximum
LoopLog ==
    IF call.fn = "run" THEN call
    ELSE [ fn |-> "run", processed |-> << >>, emitted |-> << >>, slow |-> {} ]

\* the loop body leaving the frame that took too long without printing it
TimedProcessFrame_drops_slow(f, processing_time) ==
    /\ main_pc = "process"
    /\ IF processing_time > config.MAX_FRAME_PROCESSING_TIME_MS
       THEN /\ main_pc' = "loop"
            /\ UNCHANGED << config, clock, ledger, frame_state, history >>
       ELSE /\ process_frame(f)
            /\ main_pc' = "output"
    /\ stop' = IF stop.at # "none" THEN [ stop EXCEPT !.processed = @ + 1 ] ELSE stop
    /\ call' = [ LoopLog EXCEPT
                   !.processed = Append(@, frame_count),
                   !.slow = IF processing_time > config.MAX_FRAME_PROCESSING_TIME_MS
                            THEN @ \cup { frame_count } ELSE @ ]
    /\ UNCHANGED << objects, config_valid, warned, handlers, initialized, running,
                    frame_count, camera, output >>

\* results = self.process_frame(frame), which takes processing_time
\* milliseconds; a time above the maximum is logged and nothing else
TimedProcessFrame(f, processing_time) ==
    /\ main_pc = "process"
    /\ process_frame(f)
    /\ main_pc' = "output"
    /\ stop' = IF stop.at # "none" THEN [ stop EXCEPT !.processed = @ + 1 ] ELSE stop
    /\ call' = [ LoopLog EXCEPT
                   !.processed = Append(@, frame_count),
                   !.slow = IF processing_time > config.MAX_FRAME_PROCESSING_TIME_MS
                            THEN @ \cup { frame_count } ELSE @ ]
    /\ UNCHANGED << objects, config_valid, warned, handlers, initialized, running,
                    frame_count, camera, output >>

\* the results of the frame are printed
TimedOutput ==
    /\ main_pc = "output"
    /\ process_frame_return
    /\ output_status("frame")
    /\ main_pc' = "loop"
    /\ stop' = IF stop.at # "none" THEN [ stop EXCEPT !.emitted = @ + 1 ] ELSE stop
    /\ call' = [ LoopLog EXCEPT !.emitted = Append(@, frame_count) ]
    /\ UNCHANGED << objects, config_valid, warned, handlers, initialized, running,
                    frame_count, camera >>

\* processing times in milliseconds, below and above the maximum
ProcessingTimes == { 40, 250 }

NextLoop ==
    \/ ImportConfig
    \/ Construct
    \/ \E outcome \in InitializeOutcomes : Initialize(outcome)
    \/ RunStart
    \/ LoopTest
    \/ \E ret \in BOOLEAN : CameraRead(ret)
    \/ \E f \in MainFrames, processing_time \in ProcessingTimes :
           TimedProcessFrame(f, processing_time)
    \/ TimedOutput
    \/ RunFinally
    \/ Cleanup
    \/ Signal

SpecLoop == InitMain /\ [][NextLoop]_vars

\* no frame is given to process_frame twice: the numbers of the processed
\* frames go up
ProcessedOnce ==
    \A i, j \in 1..Len(LoopLog.processed) :
        i < j => LoopLog.processed[i] < LoopLog.processed[j]

\* the frame of the number has had its results printed
Emitted(n) == \E i \in 1..Len(LoopLog.emitted) : LoopLog.emitted[i] = n

\* a frame that took too long has its results printed, or is about to
SlowFramesEmitted ==
    \A n \in LoopLog.slow :
        Emitted(n) \/ (main_pc = "output" /\ frame_count = n)

\* the step after process_frame prints the results and goes back to the loop
\* test, and the loop test goes on to the next read, whatever the time taken
LoopGoesOn ==
    /\ (main_pc = "output" /\ main_pc' # "output") =>
           /\ main_pc' = "loop"
           /\ running' = running
           /\ output' = Append(output, "frame")
    /\ (main_pc = "loop" /\ main_pc' # "loop" /\ running) => main_pc' = "read"

-----------------------------------------------------------------------------
(* utils/geometry.py: coordinate conversions in floating point *)

RECURSIVE Pow2(_)
Pow2(k) == IF k = 0 THEN 1 ELSE 2 * Pow2(k - 1)

\* the floating-point number nearest to (n / d) * 2^e, for n > 0: the
\* significand is brought to MantissaBits bits and rounded, ties to even
RECURSIVE RoundScaled(_, _, _)
RoundScaled(n, d, e) ==
    IF n >= d * Pow2(MantissaBits) THEN RoundScaled(n, 2 * d, e + 1)
    ELSE IF n < d * Pow2(MantissaBits - 1) THEN RoundScaled(2 * n, d, e - 1)
    ELSE LET m == n \div d
             twice == 2 * (n % d)
             rounded == IF twice > d \/ (twice = d /\ m % 2 = 1) THEN m + 1 ELSE m
         IN  IF e >= 0 THEN Rat(rounded * Pow2(e), 1) ELSE Rat(rounded, Pow2(-e))

\* the result of a floating-point operation whose exact result is x
Float(x) ==
    IF x[1] = 0 THEN x
    ELSE IF x[1] > 0 THEN RoundScaled(x[1], x[2], 0)
    ELSE RatSub(Whole(0), RoundScaled(-x[1], x[2], 0))

\* point[0] *= image_width; point[1] *= image_height
normalize_to_image_coords(normalized_point, image_width, image_height) ==
    << Float(RatMul(normalized_point[1], Whole(image_width))),
       Float(RatMul(normalized_point[2], Whole(image_height))) >>

\* image_to_normalized_coords dividing both coordinates by the width
image_to_normalized_coords_by_width(pixel_point, image_width, image_height) ==
    IF image_width > 0 /\ image_height > 0
    THEN << Float(RatDiv(pixel_point[1], Whole(image_width))),
            Float(RatDiv(pixel_point[2], Whole(image_width))) >>
    ELSE pixel_point

\* point[0] /= image_width; point[1] /= image_height, when both are positive
image_to_normalized_coords(pixel_point, image_width, image_height) ==
    IF image_width > 0 /\ image_height > 0
    THEN << Float(RatDiv(pixel_point[1], Whole(image_width))),
            Float(RatDiv(pixel_point[2], Whole(image_height))) >>
    ELSE pixel_point

\* the images: every width, and a height of 3 or the largest
ImageWidths == 1..MaxDim
ImageHeights == { 3, MaxDim }

\* the points strictly inside an image, at whole pixels
PixelPoints(image_width, image_height) ==
    { << Whole(x), Whole(y) >> : x \in 1..(image_width - 1), y \in 1..(image_height - 1) }

\* normalized points strictly inside the unit square, which are
\* floating-point numbers of MantissaBits bits
NormalizedPoints ==
    { << Rat(k, Pow2(MantissaBits)), Rat(l, 16) >> :
        k \in (1..MaxDim) \cup { Pow2(MantissaBits) - j : j \in 1..MaxDim },
        l \in { 7, 8 } }

InitCoords ==
    /\ config = DefaultConfig
    /\ IdleSession
    /\ FreshObjects
    /\ ReadyProcessor
    /\ \E image_width \in ImageWidths, image_height \in ImageHeights :
         \/ \E p \in PixelPoints(image_width, image_height) :
                call = [ fn |-> "coords", from |-> "pixel", point |-> p,
                         image_width |-> image_width, image_height |-> image_height,
                         there |-> None, back |-> None ]
         \/ \E p \in NormalizedPoints :
                call = [ fn |-> "coords", from |-> "normalized", point |-> p,
                         image_width |-> image_width, image_height |-> image_height,
                         there |-> None, back |-> None ]

\* the first conversion of the round trip
ConvertThere ==
    /\ call.fn = "coords"
    /\ call.there = None
    /\ call' = [ call EXCEPT !.there =
                   Some(IF call.from = "pixel"
                        THEN image_to_normalized_coords(call.point, call.image_width,
                                                        call.image_height)
                        ELSE normalize_to_image_coords(call.point, call.image_width,
                                                       call.image_height)) ]
    /\ UNCHANGED << config, clock, ledger, frame_state, history, objects, lifecycle, stop >>

\* the second conversion, of the result of the first
ConvertBack ==
    /\ call.fn = "coords"
    /\ call.there # None
    /\ call.back = None
    /\ call' = [ call EXCEPT !.back =
                   Some(IF call.from = "pixel"
                        THEN normalize_to_image_coords(call.there[1], call.image_width,
                                                       call.image_height)
                        ELSE image_to_normalized_coords(call.there[1], call.image_width,
                                                        call.image_height)) ]
    /\ UNCHANGED << config, clock, ledger, frame_state, history, objects, lifecycle, stop >>

NextCoords == ConvertThere \/ ConvertBack

SpecCoords == InitCoords /\ [][NextCoords]_vars

\* a round trip has been made
RoundTripMade == call.fn = "coords" /\ call.back # None

\* C23: for every image with positive width and height and every point
\* strictly inside it, image_to_normalized_coords followed by
\* normalize_to_image_coords returns the original point, and
\* normalize_to_image_coords followed by image_to_normalized_coords returns
\* the original normalized point.
C23_RoundTripExact ==
    RoundTripMade => call.back[1] = call.point

\* the two numbers differ by at most three half units in the last place of b
WithinTolerance(a, b) ==
    LET diff == IF RatLess(a, b) THEN RatSub(b, a) ELSE RatSub(a, b)
        size == IF b[1] < 0 THEN RatSub(Whole(0), b) ELSE b
    IN  ~RatLess(RatMul(size, Rat(3, Pow2(MantissaBits))), diff)

\* C23 as amended: both round trips return the original point within
\* floating-point tolerance.
RoundTripWithinTolerance ==
    RoundTripMade =>
        /\ WithinTolerance(call.back[1][1], call.point[1])
        /\ WithinTolerance(call.back[1][2], call.point[2])

\* a round trip from pixels that returned another number than it was given
RoundTripInexact ==
    /\ RoundTripMade
    /\ call.from = "pixel"
    /\ call.back[1][1] # call.point[1]
    /\ call.image_width # call.image_height

-----------------------------------------------------------------------------
(* utils/geometry.py: points and image bounds *)

\* is_point_in_image: 0 <= x < image_width and 0 <= y < image_height
is_point_in_image(point, image_width, image_height) ==
    /\ ~RatLess(point[1], Whole(0)) /\ RatLess(point[1], Whole(image_width))
    /\ ~RatLess(point[2], Whole(0)) /\ RatLess(point[2], Whole(image_height))

\* np.clip(a, a_min, a_max)
np_clip(a, a_min, a_max) ==
    IF RatLess(a, a_min) THEN a_min
    ELSE IF RatLess(a_max, a) THEN a_max
    ELSE a

\* clip_point_to_image
clip_point_to_image(point, image_width, image_height) ==
    << np_clip(point[1], Whole(0), Whole(image_width - 1)),
       np_clip(point[2], Whole(0), Whole(image_height - 1)) >>

\* the images: one pixel, a few pixels, and the 640x480 of the test
ClipImages == { << 1, 1 >>, << 4, 3 >>, << 640, 480 >> }

\* the coordinates tried along a side of the length given: outside at both
\* ends, on the borders, and half a pixel from them
ClipCoordinates(length) ==
    { Whole(-50), Rat(-1, 2), Whole(0), Rat(1, 2), Whole(length - 1),
      Rat(2 * length - 1, 2), Whole(length), Whole(700) }

InitClip ==
    /\ config = DefaultConfig
    /\ IdleSession
    /\ FreshObjects
    /\ ReadyProcessor
    /\ \E image \in ClipImages :
         \E x \in ClipCoordinates(image[1]), y \in ClipCoordinates(image[2]) :
             call = [ fn |-> "clip", point |-> << x, y >>,
                      image_width |-> image[1], image_height |-> image[2],
                      inside |-> None, clipped |-> None,
                      accepted |-> None, again |-> None ]

\* is_point_in_image and clip_point_to_image on the point
ClipPoint ==
    /\ call.fn = "clip"
    /\ call.clipped = None
    /\ call' = [ call EXCEPT
                   !.inside = Some(is_point_in_image(call.point, call.image_width,
                                                     call.image_height)),
                   !.clipped = Some(clip_point_to_image(call.point, call.image_width,
                                                        call.image_height)) ]
    /\ UNCHANGED << config, clock, ledger, frame_state, history, objects, lifecycle, stop >>

\* is_point_in_image and clip_point_to_image on the clipped point
ClipAgain ==
    /\ call.fn = "clip"
    /\ call.clipped # None
    /\ call.again = None
    /\ call' = [ call EXCEPT
                   !.accepted = Some(is_point_in_image(call.clipped[1], call.image_width,
                                                       call.image_height)),
                   !.again = Some(clip_point_to_image(call.clipped[1], call.image_width,
                                                      call.image_height)) ]
    /\ UNCHANGED << config, clock, ledger, frame_state, history, objects, lifecycle, stop >>

NextClip == ClipPoint \/ ClipAgain

SpecClip == InitClip /\ [][NextClip]_vars

\* the point has been clipped, and the clipped point tested and clipped again
Clipped == call.fn = "clip" /\ call.again # None

\* C24: for every point and every image of width and height >= 1,
\* clip_point_to_image returns a point that is_point_in_image accepts, leaves
\* a point already inside unchanged, and is idempotent; e.g. (700, -50) in
\* 640x480 becomes (639, 0).
C24_ClipIntoImage ==
    Clipped =>
        /\ call.accepted = Some(TRUE)
        /\ call.inside = Some(TRUE) => call.clipped[1] = call.point
        /\ call.again = call.clipped
        /\ ( /\ call.point = << Whole(700), Whole(-50) >>
             /\ call.image_width = 640 /\ call.image_height = 480 )
           => call.clipped[1] = << Whole(639), Whole(0) >>

\* the point lies between 0 and the last pixel in both coordinates
WithinLastPixel ==
    /\ ~RatLess(call.point[1], Whole(0))
    /\ ~RatLess(Whole(call.image_width - 1), call.point[1])
    /\ ~RatLess(call.point[2], Whole(0))
    /\ ~RatLess(Whole(call.image_height - 1), call.point[2])

\* what the code does: the clipped point is accepted and clipping is
\* idempotent, but only a point up to the last pixel is left unchanged
ClipKeepsUpToLastPixel ==
    Clipped =>
        /\ call.accepted = Some(TRUE)
        /\ call.again = call.clipped
        /\ WithinLastPixel <=> call.clipped[1] = call.point

\* a point that is_point_in_image accepts and clip_point_to_image moves
InsidePointMoved ==
    /\ Clipped
    /\ call.inside = Some(TRUE)
    /\ call.clipped[1] # call.point
    /\ call.image_width = 640

-----------------------------------------------------------------------------
(* utils/geometry.py: normalize_angle, one loop iteration at a time *)

\* range_size = max_val - min_val
range_size(min_val, max_val) == Float(RatSub(max_val, min_val))

\* the first loop: while angle < min_val: angle += range_size
NormalizeUp ==
    /\ call.fn = "normalize_angle"
    /\ call.pc = "up"
    /\ call' = IF RatLess(call.angle, call.min_val)
               THEN [ call EXCEPT !.angle =
                        Float(RatAdd(@, range_size(call.min_val, call.max_val))) ]
               ELSE [ call EXCEPT !.pc = "down" ]
    /\ UNCHANGED << config, clock, ledger, frame_state, history, objects, lifecycle, stop >>

\* the second loop: while angle >= max_val: angle -= range_size; then return
NormalizeDown ==
    /\ call.fn = "normalize_angle"
    /\ call.pc = "down"
    /\ call' = IF ~RatLess(call.angle, call.max_val)
               THEN [ call EXCEPT !.angle =
                        Float(RatSub(@, range_size(call.min_val, call.max_val))) ]
               ELSE [ call EXCEPT !.pc = "done" ]
    /\ UNCHANGED << config, clock, ledger, frame_state, history, objects, lifecycle, stop >>

\* the ranges: the default one and 0 to 360
AngleRanges == { << Whole(-180), Whole(180) >>, << Whole(0), Whole(360) >> }

\* the angles: the quarter turns up to MaxTurns either way, and an angle so
\* large that the floating-point numbers around it are further apart than
\* the range is wide
Angles ==
    { Whole(90 * k) : k \in (-MaxTurns)..MaxTurns }
    \cup { Whole(Pow2(MantissaBits + 11)), Whole(-Pow2(MantissaBits + 11)) }

InitAngle ==
    /\ config = DefaultConfig
    /\ IdleSession
    /\ FreshObjects
    /\ ReadyProcessor
    /\ \E angle \in Angles, r \in AngleRanges :
           call = [ fn |-> "normalize_angle", input |-> angle,
                    min_val |-> r[1], max_val |-> r[2],
                    angle |-> angle, pc |-> "up" ]

NextAngle == NormalizeUp \/ NormalizeDown

\* the interpreter goes on executing the loops
SpecAngle == InitAngle /\ [][NextAngle]_vars /\ WF_vars(NextAngle)

\* normalize_angle has returned
AngleReturned == call.fn = "normalize_angle" /\ call.pc = "done"

\* the value returned lies in [min_val, max_val)
ReturnedInRange ==
    AngleReturned =>
        /\ ~RatLess(call.angle, call.min_val)
        /\ RatLess(call.angle, call.max_val)

\* the value returned differs from the input by a whole number of ranges
ReturnedWholeRangesAway ==
    AngleReturned =>
        RatDiv(RatSub(call.input, call.angle),
               RatSub(call.max_val, call.min_val))[2] = 1

\* 270 gives -90 for the default range
AngleExample ==
    ( /\ AngleReturned
      /\ call.input = Whole(270)
      /\ call.min_val = Whole(-180) /\ call.max_val = Whole(180) )
    => call.angle = Whole(-90)

\* C25: normalize_angle terminates for every finite angle and every range
\* with min_val < max_val, and returns a value in [min_val, max_val) that
\* differs from the input by an integer multiple of (max_val - min_val);
\* e.g. 270 -> -90 for the default range.
C25_NormalizeTerminatesInRange ==
    /\ <> AngleReturned
    /\ [] ReturnedInRange
    /\ [] ReturnedWholeRangesAway
    /\ [] AngleExample

\* adding or subtracting the range leaves the angle as it is
RangeAbsorbed ==
    /\ call.fn = "normalize_angle"
    /\ \/ /\ call.pc = "up"
          /\ RatLess(call.angle, call.min_val)
          /\ Float(RatAdd(call.angle, range_size(call.min_val, call.max_val))) = call.angle
       \/ /\ call.pc = "down"
          /\ ~RatLess(call.angle, call.max_val)
          /\ Float(RatSub(call.angle, range_size(call.min_val, call.max_val))) = call.angle

\* what the code does: when it returns, it returns the value the claim
\* describes; with an angle so large that the range is absorbed it never does
ReturnedAsDescribed ==
    /\ ReturnedInRange
    /\ ReturnedWholeRangesAway
    /\ AngleExample
    /\ RangeAbsorbed => call.angle = call.input

\* normalize_angle is in its second loop with an angle that the subtraction
\* does not change
AngleStuck ==
    /\ RangeAbsorbed
    /\ call.pc = "down"
    /\ call.angle = call.input

-----------------------------------------------------------------------------
(* main() with a stop signal that comes before the loop of run() *)

\* _signal_handler: SIGINT or SIGTERM arrives while initialize() runs or
\* before run() is called; where it came is kept
EarlySignal ==
    /\ handlers
    /\ main_pc \in { "initialize", "run" }
    /\ running' = FALSE
    /\ call' = [ fn |-> "signal", at |-> main_pc ]
    /\ UNCHANGED << config, clock, ledger, frame_state, history, objects,
                    main_pc, config_valid, warned, handlers, initialized,
                    frame_count, camera, output, stop >>

NextEarly ==
    \/ NextMain
    \/ EarlySignal

SpecEarly == InitMain /\ [][NextEarly]_vars

\* a stop signal has come between the construction and the loop
StoppedEarly == call.fn = "signal"

\* C26: a stop signal delivered after the processor is constructed but before
\* run() enters its loop (for example during initialize) is not lost: run()
\* then exits without processing any frame.
C26_EarlySignalNotLost ==
    StoppedEarly => main_pc \notin { "read", "process", "output" } /\ ~FrameProcessed

\* what the code does: run() sets self.running = True when it starts, whatever
\* the handler has set before
RunStartsRunning ==
    (main_pc = "run" /\ main_pc' = "loop") => running'

RunOverridesEarlySignal == [][RunStartsRunning]_vars

\* a stop signal came during initialize(), and run() has processed a frame
\* and printed its results since
EarlySignalLost ==
    /\ StoppedEarly
    /\ call.at = "initialize"
    /\ Printed("frame")
    /\ running

-----------------------------------------------------------------------------
(* process_frame and the accumulators of the gaze estimator *)

\* the frames: nobody, or one person whose head pose is known or not
AccumFrames ==
    { [ phone |-> FALSE, persons |-> 0, face |-> FALSE, head_pose |-> None, gaze |-> None ] }
    \cup
    { [ phone |-> FALSE, persons |-> 1, face |-> TRUE, head_pose |-> h, gaze |-> None ] :
        h \in { None, Some([ yaw |-> 10, pitch |-> 0 ]) } }

\* the gaze samples: no iris, an eye narrower than GAZE_MIN_EYE_WIDTH_PX, and
\* eyes wide enough that agree badly (10), fairly (25) or fully (100)
AccumSamples ==
    { [ iris |-> FALSE, landmarks |-> "full", eye_width |-> 30,
        angle |-> Whole(10), quality |-> 100 ],
      [ iris |-> TRUE, landmarks |-> "full", eye_width |-> 5,
        angle |-> Whole(10), quality |-> 100 ] }
    \cup
    { [ iris |-> TRUE, landmarks |-> "full", eye_width |-> 30,
        angle |-> Whole(a), quality |-> q ] : a \in { 10, -20 }, q \in { 10, 25, 100 } }

\* the eyes of the face, open
AccumLandmarks ==
    { Some([ left  |-> [ horizontal |-> Whole(50), vertical_1 |-> Whole(15),
                         vertical_2 |-> Whole(15) ],
             right |-> [ horizontal |-> Whole(50), vertical_1 |-> Whole(15),
                         vertical_2 |-> Whole(15) ] ]) }

NextAccum ==
    \/ \E d \in AccumFrames, s \in AccumSamples, landmarks \in AccumLandmarks :
           /\ Len(trace.quality) < MaxUpdates
           /\ AnalyzeFrame(d, s, landmarks)
    \/ ProcessFrameReturn

SpecAccum == InitPose /\ [][NextAccum]_vars

\* process_frame has run on a frame and is about to return
FrameAnalyzed == pc = "return" /\ call.fn = "process_frame"

\* why the frame gave no gaze sample to the accumulators, if it gave none
NoFace == ~call.face.face_detected
NoIris == call.face.face_detected /\ ~call.sample.iris
NarrowEye ==
    /\ call.face.face_detected
    /\ call.sample.iris
    /\ call.sample.eye_width < config.GAZE_MIN_EYE_WIDTH_PX
QualityDropped ==
    /\ call.face.face_detected
    /\ call.sample.iris
    /\ call.sample.eye_width >= config.GAZE_MIN_EYE_WIDTH_PX
    /\ ~call.gaze[1].gaze_detected

\* C27: the gaze smoothing accumulator changes only on accepted samples: a
\* frame without a face, a frame with missing iris landmarks, a frame
\* rejected by the eye-width gate and a frame dropped by the quality policy
\* all leave the EMA value unchanged, and the first three also leave the
\* quality history unchanged.
C27_EmaChangesOnAcceptedOnly ==
    FrameAnalyzed =>
        /\ (NoFace \/ NoIris \/ NarrowEye \/ QualityDropped)
               => estimator.ema_angle = call.before.ema_angle
        /\ (NoFace \/ NoIris \/ NarrowEye)
               => estimator.quality_history = call.before.quality_history
        /\ estimator.ema_angle # call.before.ema_angle
               => call.gaze # None /\ call.gaze[1].gaze_detected

\* a sample is dropped by the quality policy after another was accepted: the
\* EMA value is the one it was, and the quality history has one score more
C27_Witness ==
    /\ FrameAnalyzed
    /\ QualityDropped
    /\ call.before.ema_angle # None
    /\ call.sample.angle # call.before.ema_angle[1]
    /\ estimator.ema_angle = call.before.ema_angle
    /\ Len(estimator.quality_history) = Len(call.before.quality_history) + 1

-----------------------------------------------------------------------------
(* The per-eye flags of detect_blink, checked under SpecEar *)

\* detect_blink has returned
BlinkDetected == call.fn = "ear" /\ call.blink # None

\* the ratio, if any, is below the estimator's threshold
BelowThreshold(ear) == ear # None /\ RatLess(ear[1], EarThreshold(estimator))

\* C28: in every result of detect_blink the per-eye flags agree with the
\* combined flag: both_eyes_closed is true exactly when left_eye_closed and
\* right_eye_closed are both true, and an eye is reported closed only if its
\* own ratio is below the threshold.
C28_EyeFlagsAgree ==
    BlinkDetected =>
        /\ call.blink[1].both_eyes_closed
               <=> (call.blink[1].left_eye_closed /\ call.blink[1].right_eye_closed)
        /\ call.blink[1].left_eye_closed => BelowThreshold(call.ear[1].left_ear)
        /\ call.blink[1].right_eye_closed => BelowThreshold(call.ear[1].right_ear)

\* what the code does: an eye that has a ratio is reported closed when the
\* average is below the threshold, and both_eyes_closed goes by each eye's
\* own ratio
EyeFlagsFollowAverage ==
    BlinkDetected =>
        LET b == call.blink[1]
            v == call.ear[1]
        IN  /\ b.both_eyes_closed
                   <=> (BelowThreshold(v.left_ear) /\ BelowThreshold(v.right_ear))
            /\ b.left_eye_closed
                   <=> (v.left_ear # None /\ BelowThreshold(v.avg_ear))
            /\ b.right_eye_closed
                   <=> (v.right_ear # None /\ BelowThreshold(v.avg_ear))

\* the left eye shut and the right eye open at 0.3: both are reported closed
\* one by one, and both_eyes_closed is false
OpenEyeReportedClosed ==
    /\ BlinkDetected
    /\ call.ear[1].left_ear = Some(Whole(0))
    /\ call.ear[1].right_ear = Some(Rat(30, 100))
    /\ call.blink[1].left_eye_closed
    /\ call.blink[1].right_eye_closed
    /\ ~call.blink[1].both_eyes_closed

-----------------------------------------------------------------------------
(* The flags of a frame and of the frame before it: frames are processed one
   after the other with the evidence snapshots on, and the record a frame
   returned is kept until the next one returns *)

\* head pose and gaze detection both on or both off
PairConfigs ==
    { [ DefaultConfig EXCEPT !.ENABLE_HEAD_POSE_DETECTION = e,
                             !.ENABLE_GAZE_DETECTION = e ] : e \in BOOLEAN }

\* a head pose outside the facing ranges
AwayPose == Some([ yaw |-> DefaultConfig.HEAD_FACING_SCREEN_YAW_MAX + 1, pitch |-> 0 ])

\* the frames: a phone or none, one person, no face or a face with or without
\* a head pose and a gaze estimate
PairFrames ==
    { [ phone |-> p, persons |-> 1, face |-> FALSE, head_pose |-> None, gaze |-> None ] :
        p \in BOOLEAN }
    \cup
    { [ phone |-> p, persons |-> 1, face |-> TRUE, head_pose |-> h, gaze |-> g ] :
        p \in BOOLEAN,
        h \in { None, FacingPose, AwayPose },
        g \in { None, Some(0), Some(DefaultConfig.GAZE_RIGHT_THRESHOLD + 1) } }

\* process_frame returns; the record it returned and the capture counter are
\* remembered
ProcessFrameReturned ==
    /\ process_frame_return
    /\ call' = [ fn |-> "process_frame", results |-> results, count |-> snapshot_count ]
    /\ UNCHANGED << objects, lifecycle, stop >>

\* a cooldown's time passes between two frames
PairWait ==
    /\ pc = "idle"
    /\ clock + config.SNAPSHOT_COOLDOWN_SECONDS <= MaxClock
    /\ clock' = clock + config.SNAPSHOT_COOLDOWN_SECONDS
    /\ UNCHANGED << config, ledger, frame_state, history, call, objects, lifecycle, stop >>

InitPair ==
    /\ config \in PairConfigs
    /\ IdleSession
    /\ call = NoCall
    /\ FreshObjects
    /\ ReadyProcessor

NextPair ==
    \/ \E f \in PairFrames : ProcessFrame(f)
    \/ SnapshotIteration
    \/ ProcessFrameReturned
    \/ PairWait

SpecPair == InitPair /\ [][NextPair]_vars

\* the frame in progress has the same detection, face and gaze results as the
\* frame before it
SameResultsAsBefore ==
    /\ FrameDone
    /\ call.fn = "process_frame"
    /\ results.detections = call.results.detections
    /\ results.face = call.results.face
    /\ results.gaze = call.results.gaze

-----------------------------------------------------------------------------
(* The capture outcomes the frames of a session report, added up by the
   caller of process_frame *)

\* nothing has been reported yet
NoReports == [ fn |-> "process_frame", reported |-> 0, types |-> {} ]

\* the captures the returned frames have reported so far
Reports == IF call.fn = "process_frame" THEN call ELSE NoReports

\* the elements of a sequence
Range(s) == { s[i] : i \in 1..Len(s) }

\* process_frame returns; the caller adds the frame's results['snapshot'] to
\* what the earlier frames reported
ProcessFrameReported ==
    /\ process_frame_return
    /\ call' = [ fn |-> "process_frame",
                 reported |-> Reports.reported
                                + Len(results.snapshot[1].snapshot_violations),
                 types |-> Reports.types
                             \cup Range(results.snapshot[1].snapshot_violations) ]
    /\ UNCHANGED << objects, lifecycle, stop >>

NextReport ==
    \/ \E f \in SessionFrames : ProcessFrame(f)
    \/ SnapshotIteration
    \/ ProcessFrameReported
    \/ Tick

SpecReport == Init /\ [][NextReport]_vars

\* no frame is in progress
BetweenFrames == pc = "idle"

\* C30: after any sequence of frames, the session capture counter equals the
\* total number of captures reported in the frames' capture outcomes (one file
\* reference per reported violation type), a violation type has a recorded
\* last-capture time only if it was captured at least once, and snapshot_taken
\* is true exactly in the frames that report at least one captured type.
C30_CounterMatchesReports ==
    /\ BetweenFrames =>
           /\ snapshot_count = Reports.reported
           /\ DOMAIN snapshot_cooldowns \subseteq Reports.types
    /\ FrameDone =>
           /\ Len(results.snapshot[1].snapshot_paths)
                  = Len(results.snapshot[1].snapshot_violations)
           /\ \A i \in 1..Len(results.snapshot[1].snapshot_paths) :
                  results.snapshot[1].snapshot_paths[i].violation
                      = results.snapshot[1].snapshot_violations[i]
           /\ results.snapshot[1].snapshot_taken
                  <=> results.snapshot[1].snapshot_violations # << >>

\* two captures have been reported and counted, a write of another type has
\* failed and left neither a count nor a last-capture time
C30_Witness ==
    /\ BetweenFrames
    /\ Reports.reported = 2
    /\ snapshot_count = 2
    /\ \E t \in write_failed : t \notin DOMAIN snapshot_cooldowns
    /\ DOMAIN snapshot_cooldowns # {}

====
